---- MODULE Spec2Model ----
(***************************************************************************)
(* Model of librfdict (rfdict.c / rfdict.h): a red-black tree dictionary   *)
(* with string keys and long values.  The heap is a function from node     *)
(* addresses to RFDICT_NODE records, the dictionary object is the pair     *)
(* (pRoot, sensitive).  Every public function is one action; a second set  *)
(* of actions runs the loops of the functions one iteration at a time.     *)
(* The copy of the library in shastina_util.c (sndict_, snu_ctable_) is    *)
(* modelled with the character table as a shared array.                    *)
(***************************************************************************)
EXTENDS Integers, Sequences, FiniteSets, TLC

VARIABLES
  pRoot,          \* RFDICT.pRoot: address of the root node, NULL if empty
  sensitive,      \* RFDICT.sensitive: non-zero for case-sensitive
  node,           \* the heap: address -> RFDICT_NODE, domain = live nodes
  rf_ctable_init, \* static flag: character table has been prepared
  fault,          \* TRUE once abort() has been called
  call,           \* history: the last function called, with its arguments
  retval,         \* what that call returned
  inserted,       \* history: the <<key, val>> pairs whose insert succeeded
  pc,             \* stepwise execution: the loop the running call is in
  frame,          \* stepwise execution: the locals of the running call
  freed,          \* the blocks released by rfdict_free, in order
  snu_ctable,     \* static char snu_ctable[256]
  snu_ctable_init,\* static int snu_ctable_init
  thread          \* the threads that use the character table

\* the variables of the stepwise execution and of the character table
stepVars == <<pc, frame, freed>>
ctableVars == <<snu_ctable, snu_ctable_init, thread>>

vars == <<pRoot, sensitive, node, rf_ctable_init, fault, call, retval,
          inserted, pc, frame, freed, snu_ctable, snu_ctable_init, thread>>

(***************************************************************************)
(* Constants of the program and bounds of the model.                       *)
(***************************************************************************)
NULL == 0
ASCII_UPPER_A == 65
ASCII_UPPER_Z == 90
ASCII_LOWER_A == 97
ASCII_LOWER_Z == 122
RFDICT_MAXKEY == 16384

\* further bytes used to build keys: the bytes that follow Z and z, and a
\* control character (a tab), which the character table does not map
LBRACKET == ASCII_UPPER_Z + 1
LBRACE == ASCII_LOWER_Z + 1
CONTROL == ASCII_UPPER_A - 56

MaxNodes == 3       \* nodes a dictionary may hold under Spec
MaxDeepNodes == 8   \* nodes a dictionary may hold under SpecDeep
MaxStepNodes == 10  \* nodes a dictionary may hold under SpecSteps
MaxFixNodes == 8    \* nodes of any arrival order under SpecFix
FixTail == 2        \* further nodes under SpecFix, of rising arrival
CtThreads == 2      \* threads started beside the main thread

Alphabet == {ASCII_UPPER_A, ASCII_LOWER_A, LBRACKET, LBRACE}
Keys == {<<>>} \cup {<<c>> : c \in Alphabet}
               \cup {<<ASCII_UPPER_A, ASCII_LOWER_A>>}
CmpKeys == Keys \cup {<<ASCII_UPPER_Z>>, <<ASCII_LOWER_Z>>,
                      <<ASCII_LOWER_A, ASCII_UPPER_A>>}
Vals == {1, 2}
DValues == {0, 1}
TranslateKeys == {<<>>, <<ASCII_LOWER_A>>, <<LBRACE>>, <<CONTROL>>,
                  <<ASCII_UPPER_A, CONTROL>>}
DeepKeys == {<<c>> : c \in ASCII_UPPER_A .. (ASCII_UPPER_A + MaxDeepNodes - 1)}
              \cup {<<ASCII_LOWER_A>>, <<ASCII_UPPER_A, ASCII_LOWER_A>>}

\* keys at the length limit: n bytes 'a', built by doubling
RECURSIVE KeyOfLen(_)
KeyOfLen(n) ==
  IF n = 0 THEN <<>>
  ELSE IF n % 2 = 0 THEN KeyOfLen(n \div 2) \o KeyOfLen(n \div 2)
  ELSE <<ASCII_LOWER_A>> \o KeyOfLen(n - 1)
LongKeys == {<<>>, <<LBRACKET>>, KeyOfLen(RFDICT_MAXKEY),
             KeyOfLen(RFDICT_MAXKEY + 1)}

(***************************************************************************)
(* C strings: a key is the sequence of its non-zero bytes; the byte at      *)
(* offset i is 0 at the terminator.  The keys of the model hold bytes in   *)
(* 1..127 only, where a plain char converts to the same int in every build.*)
(***************************************************************************)
ByteAt(s, i) == IF i + 1 <= Len(s) THEN s[i + 1] ELSE 0

RECURSIVE strcmpFrom(_, _, _)
strcmpFrom(s1, s2, i) ==
  LET a == ByteAt(s1, i)
      b == ByteAt(s2, i)
  IN IF a # b THEN (IF a < b THEN -1 ELSE 1)
     ELSE IF a = 0 THEN 0
     ELSE strcmpFrom(s1, s2, i + 1)

\* strcmp of the C library: 0 for equal strings, else the sign given by
\* the first bytes that differ; bytes compare as unsigned char
strcmp(s1, s2) == IF s1 = s2 THEN 0 ELSE strcmpFrom(s1, s2, 0)

(***************************************************************************)
(* rfdict_keycmp: the comparison used by lookups.                          *)
(***************************************************************************)
\* the first operand compared as it is
CaseMap1_asis(c1) == c1

\* case mapping applied to the first operand
CaseMap1(c1) ==
  IF (c1 >= ASCII_LOWER_A) /\ (c1 <= ASCII_LOWER_Z)
    THEN c1 - (ASCII_LOWER_A - ASCII_UPPER_A) ELSE c1

\* case mapping applied to the second operand
CaseMap2(c2) ==
  IF (c2 >= ASCII_LOWER_A) /\ (c2 >= ASCII_LOWER_Z)
    THEN c2 - (ASCII_LOWER_A - ASCII_UPPER_A) ELSE c2

\* the for loop: the values of i, c1 and c2 when the loop is left
RECURSIVE keycmpLoop(_, _, _, _, _)
keycmpLoop(pKey1, pKey2, i, c1, c2) ==
  IF (ByteAt(pKey1, i) # 0) /\ (ByteAt(pKey2, i) # 0)
    THEN LET m1 == CaseMap1(ByteAt(pKey1, i))
             m2 == CaseMap2(ByteAt(pKey2, i))
         IN IF m1 # m2 THEN [i |-> i, c1 |-> m1, c2 |-> m2]
            ELSE keycmpLoop(pKey1, pKey2, i + 1, m1, m2)
    ELSE [i |-> i, c1 |-> c1, c2 |-> c2]

rfdict_keycmp(pKey1, pKey2, sens) ==
  IF sens # 0 THEN strcmp(pKey1, pKey2)
  ELSE LET l == keycmpLoop(pKey1, pKey2, 0, 0, 0)
           stop == (ByteAt(pKey1, l.i) = 0) \/ (ByteAt(pKey2, l.i) = 0)
           c1 == IF stop THEN ByteAt(pKey1, l.i) ELSE l.c1
           c2 == IF stop THEN ByteAt(pKey2, l.i) ELSE l.c2
       IN IF c1 = c2 THEN 0 ELSE IF c1 > c2 THEN 1 ELSE -1

(***************************************************************************)
(* rfdict_find and rfdict_get.                                             *)
(***************************************************************************)
\* the while loop of rfdict_find, entered with pCurrent
RECURSIVE findFrom(_, _, _, _)
findFrom(nd, pCurrent, pKey, sens) ==
  IF pCurrent = NULL THEN NULL
  ELSE LET r == rfdict_keycmp(pKey, nd[pCurrent].key, sens)
       IN IF r = 0 THEN pCurrent
          ELSE IF r < 0 THEN findFrom(nd, nd[pCurrent].pLeft, pKey, sens)
          ELSE findFrom(nd, nd[pCurrent].pRight, pKey, sens)

rfdict_find(root, nd, pKey, sens) ==
  findFrom(nd, root, pKey, sens)

rfdict_get(root, nd, pKey, dvalue, sens) ==
  LET pNode == rfdict_find(root, nd, pKey, sens)
  IN IF pNode # NULL THEN nd[pNode].val ELSE dvalue

(***************************************************************************)
(* Colors and rotations.  D is the dictionary with its heap:               *)
(* [pRoot, node, fault]; fault is set where the code calls abort().        *)
(***************************************************************************)
\* a color test that takes every node for a red one
rfdict_isred_any(nd, pNode) == IF pNode # NULL THEN 1 ELSE 0

rfdict_isred(nd, pNode) ==
  IF pNode # NULL THEN (IF nd[pNode].red # 0 THEN 1 ELSE 0) ELSE 0

rfdict_isblack(nd, pNode) ==
  IF pNode # NULL THEN (IF nd[pNode].red # 0 THEN 0 ELSE 1) ELSE 1

\* rfdict_rol without the update of the parent of the swapped subtree
rolSwapped_skip(n, pNode) == n

\* rfdict_rol: update parent of the swapped subtree, if it isn't empty
rolSwapped(n, pNode) ==
  IF n[pNode].pRight # NULL
    THEN [n EXCEPT ![n[pNode].pRight].pParent = pNode]
    ELSE n

\* a left rotation that leaves the tree as it is
rfdict_rol_keep(D, pNode) == D

rfdict_rol(D, pNode) ==
  IF D.fault THEN D
  ELSE IF pNode = NULL THEN [D EXCEPT !.fault = TRUE]
  ELSE IF D.node[pNode].pRight = NULL THEN [D EXCEPT !.fault = TRUE]
  ELSE
    LET pR == D.node[pNode].pRight
        n1 == [D.node EXCEPT ![pNode].pRight = D.node[pR].pLeft]
        n2 == [n1 EXCEPT ![pR].pLeft = pNode]
        n3 == rolSwapped(n2, pNode)
        n4 == [n3 EXCEPT ![pR].pParent = n3[pNode].pParent]
        n5 == [n4 EXCEPT ![pNode].pParent = pR]
        pp == n5[pR].pParent
    IN IF pp # NULL
         THEN IF n5[pp].pLeft = pNode
                THEN [D EXCEPT !.node = [n5 EXCEPT ![pp].pLeft = pR]]
              ELSE IF n5[pp].pRight = pNode
                THEN [D EXCEPT !.node = [n5 EXCEPT ![pp].pRight = pR]]
              ELSE [D EXCEPT !.node = n5, !.fault = TRUE]
         ELSE [D EXCEPT !.node = n5, !.pRoot = pR]

\* rfdict_ror that leaves the swapped subtree behind
rorSwapped_drop(n, pNode) == [n EXCEPT ![pNode].pLeft = NULL]

\* rfdict_ror: update parent of the swapped subtree, if it isn't empty
rorSwapped(n, pNode) ==
  IF n[pNode].pLeft # NULL
    THEN [n EXCEPT ![n[pNode].pLeft].pParent = pNode]
    ELSE n

\* a right rotation that leaves the tree as it is
rfdict_ror_keep(D, pNode) == D

rfdict_ror(D, pNode) ==
  IF D.fault THEN D
  ELSE IF pNode = NULL THEN [D EXCEPT !.fault = TRUE]
  ELSE IF D.node[pNode].pLeft = NULL THEN [D EXCEPT !.fault = TRUE]
  ELSE
    LET pL == D.node[pNode].pLeft
        n1 == [D.node EXCEPT ![pNode].pLeft = D.node[pL].pRight]
        n2 == [n1 EXCEPT ![pL].pRight = pNode]
        n3 == rorSwapped(n2, pNode)
        n4 == [n3 EXCEPT ![pL].pParent = n3[pNode].pParent]
        n5 == [n4 EXCEPT ![pNode].pParent = pL]
        pp == n5[pL].pParent
    IN IF pp # NULL
         THEN IF n5[pp].pLeft = pNode
                THEN [D EXCEPT !.node = [n5 EXCEPT ![pp].pLeft = pL]]
              ELSE IF n5[pp].pRight = pNode
                THEN [D EXCEPT !.node = [n5 EXCEPT ![pp].pRight = pL]]
              ELSE [D EXCEPT !.node = n5, !.fault = TRUE]
         ELSE [D EXCEPT !.node = n5, !.pRoot = pL]

(***************************************************************************)
(* The character mapping table.                                            *)
(***************************************************************************)
\* char_ref[i]: the code, in the character set of the C source files, of
\* the ASCII character 0x20 + i; the build modelled here uses ASCII itself
char_ref(i) == 32 + i

\* the table that rf_ctable_prepare fills in: zero, then one record for
\* each ASCII character from 0x20 to 0x7E
rf_ctable ==
  [source_c \in 0 .. 255 |->
     IF \E ascii_c \in 32 .. 126 : char_ref(ascii_c - 32) = source_c
       THEN CHOOSE ascii_c \in 32 .. 126 : char_ref(ascii_c - 32) = source_c
       ELSE 0]

\* rf_ctable_ascii: the mapped character, or 0 where the function aborts
rf_ctable_ascii(source_c) ==
  IF (source_c < -128) \/ (source_c > 255) THEN 0
  ELSE rf_ctable[IF source_c < 0 THEN source_c + 256 ELSE source_c]

(***************************************************************************)
(* rfdict_insert.                                                          *)
(***************************************************************************)
\* Addresses are interchangeable: the code only tests them for equality.
\* The model gives every key one address of its own, so that equal trees
\* built in different orders are equal states.
RECURSIVE keyAddr(_)
keyAddr(k) ==
  IF k = <<>> THEN 1
  ELSE IF Len(k) > 3 THEN 128 * 128 * 128 * 4 + Len(k)
  ELSE 1 + k[1] + 128 * keyAddr(Tail(k))

\* malloc for the node that will hold key k: an address that is not in use,
\* the key's own address if it is free
malloc(nd, k) ==
  IF keyAddr(k) \notin DOMAIN nd THEN keyAddr(k)
  ELSE CHOOSE a \in 1 .. (Cardinality(DOMAIN nd) + 1) : a \notin DOMAIN nd

\* free: the block leaves the heap
free(nd, p) == [a \in (DOMAIN nd) \ {p} |-> nd[a]]

\* the translation loop over the copied key; fault if a byte has no mapping
translateKey(k) ==
  LET t == [i \in 1 .. Len(k) |-> rf_ctable_ascii(k[i])]
  IN [key |-> t,
      fault |-> \E i \in 1 .. Len(k) : t[i] = 0]

\* the copied key left as the caller wrote it
foldKey_asis(k) == k

\* a folding loop that stops after the first byte
foldKey_first(k) ==
  [i \in 1 .. Len(k) |->
     IF (i = 1) /\ (k[i] >= ASCII_LOWER_A) /\ (k[i] <= ASCII_LOWER_Z)
       THEN k[i] - (ASCII_LOWER_A - ASCII_UPPER_A)
       ELSE k[i]]

\* the loop that maps lowercase letters of the copied key to uppercase
foldKey(k) ==
  [i \in 1 .. Len(k) |->
     IF (k[i] >= ASCII_LOWER_A) /\ (k[i] <= ASCII_LOWER_Z)
       THEN k[i] - (ASCII_LOWER_A - ASCII_UPPER_A)
       ELSE k[i]]

\* the descent with the operands of strcmp exchanged
RECURSIVE descend_swapped(_, _, _)
descend_swapped(nd, pCurrent, newkey) ==
  LET r == strcmp(newkey, nd[pCurrent].key)
  IN IF r = 0 THEN [pCurrent |-> pCurrent, retval |-> r]
     ELSE IF ((nd[pCurrent].pLeft = NULL) /\ (r > 0)) \/
             ((nd[pCurrent].pRight = NULL) /\ (r < 0))
       THEN [pCurrent |-> pCurrent, retval |-> r]
     ELSE IF r > 0 THEN descend_swapped(nd, nd[pCurrent].pLeft, newkey)
     ELSE descend_swapped(nd, nd[pCurrent].pRight, newkey)

\* the for loop that looks for the position of the new key: the node the
\* loop stops at and the last result of strcmp
RECURSIVE descend(_, _, _)
descend(nd, pCurrent, newkey) ==
  LET r == strcmp(nd[pCurrent].key, newkey)
  IN IF r = 0 THEN [pCurrent |-> pCurrent, retval |-> r]
     ELSE IF ((nd[pCurrent].pLeft = NULL) /\ (r > 0)) \/
             ((nd[pCurrent].pRight = NULL) /\ (r < 0))
       THEN [pCurrent |-> pCurrent, retval |-> r]
     ELSE IF r > 0 THEN descend(nd, nd[pCurrent].pLeft, newkey)
     ELSE descend(nd, nd[pCurrent].pRight, newkey)

\* the duplicate node kept allocated
rejectNode_leak(nd, pNode) == nd

\* release of the new node when its key is already in the tree
rejectNode(nd, pNode) == free(nd, pNode)

\* linking of the allocated node pNode into the search tree
linkNode(root, nd, pNode) ==
  IF root = NULL
    THEN [pRoot |-> pNode, pNode |-> pNode, status |-> 1,
          node |-> [nd EXCEPT ![pNode].pParent = NULL, ![pNode].red = 0]]
  ELSE
    LET d == descend(nd, root, nd[pNode].key)
        pCurrent == d.pCurrent
    IN IF d.retval > 0
         THEN [pRoot |-> root, pNode |-> pNode, status |-> 1,
               node |-> [nd EXCEPT ![pCurrent].pLeft = pNode,
                                   ![pNode].pParent = pCurrent,
                                   ![pNode].red = 1]]
       ELSE IF d.retval < 0
         THEN [pRoot |-> root, pNode |-> pNode, status |-> 1,
               node |-> [nd EXCEPT ![pCurrent].pRight = pNode,
                                   ![pNode].pParent = pCurrent,
                                   ![pNode].red = 1]]
       ELSE [pRoot |-> root, pNode |-> NULL, status |-> 0,
             node |-> rejectNode(nd, pNode)]

\* the parent taken for the grandparent
grandOf_parent(nd, pNode) == nd[pNode].pParent

\* the grandparent of a node that has a parent
grandOf(nd, pNode) == nd[nd[pNode].pParent].pParent

\* the grandparent colored red wherever it is
grandColor_red(nd, pGrand) == 1

\* color given to the grandparent by the recoloring loop
grandColor(nd, pGrand) == IF nd[pGrand].pParent = NULL THEN 0 ELSE 1

\* the while loop over a grandparent with two red children, entered with
\* the current node and its grandparent
RECURSIVE recolorLoop(_, _, _)
recolorLoop(D, pNode, pGrand) ==
  IF (rfdict_isred(D.node, D.node[pGrand].pLeft) = 1) /\
     (rfdict_isred(D.node, D.node[pGrand].pRight) = 1)
    THEN
      LET n1 == [D.node EXCEPT ![D.node[pGrand].pLeft].red = 0]
          n2 == [n1 EXCEPT ![n1[pGrand].pRight].red = 0]
          n3 == [n2 EXCEPT ![pGrand].red = grandColor(n2, pGrand)]
          D3 == [D EXCEPT !.node = n3]
      IN IF (rfdict_isred(n3, pGrand) = 1) /\
            (rfdict_isred(n3, n3[pGrand].pParent) = 1)
           THEN IF grandOf(n3, pGrand) = NULL
                  THEN [D |-> [D3 EXCEPT !.fault = TRUE], pNode |-> pGrand]
                  ELSE recolorLoop(D3, pGrand, grandOf(n3, pGrand))
           ELSE [D |-> D3, pNode |-> pGrand]
    ELSE [D |-> D, pNode |-> pNode]

\* the insertion without the recoloring loop
recolor_skip(D, pNode) == [D |-> D, pNode |-> pNode]

\* first rebalancing step: the grandparent has two red children
recolor(D, pNode) ==
  IF (rfdict_isred(D.node, pNode) = 1) /\
     (rfdict_isred(D.node, D.node[pNode].pParent) = 1)
    THEN IF grandOf(D.node, pNode) = NULL
           THEN [D |-> [D EXCEPT !.fault = TRUE], pNode |-> pNode]
           ELSE recolorLoop(D, pNode, grandOf(D.node, pNode))
    ELSE [D |-> D, pNode |-> pNode]

\* the rotation test with both children required to be black or missing
needsRotation_both(nd, pGrand) ==
  (rfdict_isblack(nd, nd[pGrand].pLeft) = 1) /\
  (rfdict_isblack(nd, nd[pGrand].pRight) = 1)

\* rebalance if one of the grandparent's children is black or missing
needsRotation(nd, pGrand) ==
  (rfdict_isblack(nd, nd[pGrand].pLeft) = 1) \/
  (rfdict_isblack(nd, nd[pGrand].pRight) = 1)

\* the rotation cases without their color changes
rotationColors_none(D, pInner, pGrand) == D

\* the recoloring without the grandparent
rotationColors_inner(D, pInner, pGrand) == [D EXCEPT !.node[pInner].red = 0]

\* the recoloring that also exchanges the values of the two nodes
rotationColors_swap(D, pInner, pGrand) ==
  [D EXCEPT !.node[pInner].red = 0, !.node[pGrand].red = 1,
            !.node[pInner].val = D.node[pGrand].val,
            !.node[pGrand].val = D.node[pInner].val]

\* colors set before the rotations: the node that will take the place of
\* the grandparent becomes black, the grandparent red
rotationColors(D, pInner, pGrand) ==
  [D EXCEPT !.node[pInner].red = 0, !.node[pGrand].red = 1]

\* the insertion without the rotations
rotateFix_skip(D, pNode) == D

\* second rebalancing step: the four rotation cases
rotateFix(D, pNode) ==
  IF D.fault THEN D
  ELSE IF (rfdict_isred(D.node, pNode) = 1) /\
          (rfdict_isred(D.node, D.node[pNode].pParent) = 1)
    THEN
      LET pGrand == grandOf(D.node, pNode)
          pParent == D.node[pNode].pParent
      IN IF pGrand = NULL THEN [D EXCEPT !.fault = TRUE]
         ELSE IF needsRotation(D.node, pGrand)
           THEN
             IF (pNode = D.node[pParent].pRight) /\
                (pParent = D.node[pGrand].pLeft)
               THEN rfdict_ror(rfdict_rol(
                      rotationColors(D, pNode, pGrand),
                      pParent), pGrand)
             ELSE IF (pNode = D.node[pParent].pLeft) /\
                     (pParent = D.node[pGrand].pRight)
               THEN rfdict_rol(rfdict_ror(
                      rotationColors(D, pNode, pGrand),
                      pParent), pGrand)
             ELSE IF (pNode = D.node[pParent].pLeft) /\
                     (pParent = D.node[pGrand].pLeft)
               THEN rfdict_ror(
                      rotationColors(D, pParent, pGrand),
                      pGrand)
             ELSE IF (pNode = D.node[pParent].pRight) /\
                     (pParent = D.node[pGrand].pRight)
               THEN rfdict_rol(
                      rotationColors(D, pParent, pGrand),
                      pGrand)
             ELSE [D EXCEPT !.fault = TRUE]
         ELSE D
    ELSE D

\* the length test with the limit itself refused
keyTooLong_ge(slen) == slen >= RFDICT_MAXKEY

\* the test made on strlen(pKey) before the node is allocated
keyTooLong(slen) == slen > RFDICT_MAXKEY

\* the whole function: [pRoot, node, fault, status]
rfdict_insert(root, nd, sens, pKey, val, translate) ==
  LET aborted == [pRoot |-> root, node |-> nd, fault |-> TRUE, status |-> 0]
  IN
  IF keyTooLong(Len(pKey)) THEN aborted
  ELSE
    LET tr == IF translate # 0 THEN translateKey(pKey)
              ELSE [key |-> pKey, fault |-> FALSE]
        k == IF sens = 0 THEN foldKey(tr.key) ELSE tr.key
        pNode == malloc(nd, k)
        fresh == [pParent |-> NULL, pLeft |-> NULL, pRight |-> NULL,
                  val |-> val, red |-> 0, key |-> k]
        nd1 == [a \in (DOMAIN nd) \cup {pNode} |->
                  IF a = pNode THEN fresh ELSE nd[a]]
    IN IF tr.fault THEN aborted
       ELSE
         LET l == linkNode(root, nd1, pNode)
             D1 == [pRoot |-> l.pRoot, node |-> l.node, fault |-> FALSE]
         IN IF l.status = 0
              THEN [pRoot |-> D1.pRoot, node |-> D1.node, fault |-> FALSE,
                    status |-> 0]
              ELSE
                LET c == recolor(D1, l.pNode)
                    D2 == rotateFix(c.D, c.pNode)
                IN [pRoot |-> D2.pRoot, node |-> D2.node, fault |-> D2.fault,
                    status |-> l.status]

(***************************************************************************)
(* The actions: one per public function.                                   *)
(***************************************************************************)
\* rfdict_alloc has been called: an empty dictionary of either kind
Init ==
  /\ pRoot = NULL
  /\ sensitive \in {0, 1}
  /\ node = <<>>
  /\ rf_ctable_init = 0
  /\ fault = FALSE
  /\ call = [fn |-> "rfdict_alloc"]
  /\ retval = 0
  /\ inserted = {}
  /\ pc = "idle"
  /\ frame = <<>>
  /\ freed = <<>>
  /\ snu_ctable = [source_c \in 0 .. 255 |-> 0]
  /\ snu_ctable_init = 0
  /\ thread = [t \in {0} |-> [pc |-> "start", fn |-> "main", source_c |-> 0,
                             ascii_c |-> 0]]

InsertBounded(pKey, val, translate, limit) ==
  /\ ~fault
  /\ \E r \in {rfdict_insert(pRoot, node, sensitive, pKey, val, translate)} :
        /\ Cardinality(DOMAIN r.node) <= limit
        /\ pRoot' = r.pRoot
        /\ node' = r.node
        /\ fault' = r.fault
        /\ retval' = r.status
        /\ inserted' = IF r.status # 0 /\ ~r.fault
                         THEN inserted \cup {<<pKey, val>>} ELSE inserted
  /\ rf_ctable_init' = IF (translate # 0) /\ (Len(pKey) > 0) /\
                          (Len(pKey) <= RFDICT_MAXKEY)
                         THEN 1 ELSE rf_ctable_init
  /\ UNCHANGED <<sensitive, stepVars, ctableVars>>

\* rfdict_insert as rfdict.h declares it: the key is taken as it is
Insert(pKey, val) ==
  /\ InsertBounded(pKey, val, 0, MaxNodes)
  /\ call' = [fn |-> "rfdict_insert", pKey |-> pKey, val |-> val]

\* a lookup that colors the node it finds red
Get_mark(pKey, dvalue) ==
  /\ ~fault
  /\ retval' = rfdict_get(pRoot, node, pKey, dvalue, sensitive)
  /\ call' = [fn |-> "rfdict_get", pKey |-> pKey, dvalue |-> dvalue]
  /\ node' = LET pNode == rfdict_find(pRoot, node, pKey, sensitive)
             IN IF pNode # NULL THEN [node EXCEPT ![pNode].red = 1]
                ELSE node
  /\ UNCHANGED <<pRoot, sensitive, rf_ctable_init, fault, inserted,
                 stepVars, ctableVars>>

\* rfdict_get: the lookup writes nothing
Get(pKey, dvalue) ==
  /\ ~fault
  /\ retval' = rfdict_get(pRoot, node, pKey, dvalue, sensitive)
  /\ call' = [fn |-> "rfdict_get", pKey |-> pKey, dvalue |-> dvalue]
  /\ UNCHANGED <<pRoot, sensitive, node, rf_ctable_init, fault, inserted,
                 stepVars, ctableVars>>

Next ==
  \/ \E pKey \in Keys, val \in Vals : Insert(pKey, val)
  \/ \E pKey \in Keys, dvalue \in DValues : Get(pKey, dvalue)

Spec == Init /\ [][Next]_vars

\* insertions only, in every order, into larger trees; the history keeps
\* the name of the call only
DeepInsert(pKey) ==
  /\ InsertBounded(pKey, 1, 0, MaxDeepNodes)
  /\ call' = [fn |-> "rfdict_insert"]

NextDeep == \E pKey \in DeepKeys : DeepInsert(pKey)

SpecDeep == Init /\ [][NextDeep]_vars

\* rfdict_insert with its translate flag
InsertTranslate(pKey, translate) ==
  /\ InsertBounded(pKey, 1, translate, MaxNodes)
  /\ call' = [fn |-> "rfdict_insert", pKey |-> pKey, val |-> 1,
              translate |-> translate]

NextTranslate ==
  \E pKey \in TranslateKeys, translate \in {0, 1} :
    InsertTranslate(pKey, translate)

SpecTranslate == Init /\ [][NextTranslate]_vars

\* the comparator alone, applied to every pair of keys
Keycmp(pKey1, pKey2) ==
  /\ call.fn = "rfdict_alloc"
  /\ retval' = rfdict_keycmp(pKey1, pKey2, sensitive)
  /\ call' = [fn |-> "rfdict_keycmp", pKey1 |-> pKey1, pKey2 |-> pKey2]
  /\ UNCHANGED <<pRoot, sensitive, node, rf_ctable_init, fault, inserted,
                 stepVars, ctableVars>>

NextCmp == \E pKey1 \in CmpKeys, pKey2 \in CmpKeys : Keycmp(pKey1, pKey2)

SpecCmp == Init /\ [][NextCmp]_vars

\* rfdict_insert with keys at the length limit and beyond it
LongInsert(pKey, val) ==
  /\ InsertBounded(pKey, val, 0, MaxNodes)
  /\ call' = [fn |-> "rfdict_insert", pKey |-> pKey, val |-> val]

NextLong == \E pKey \in LongKeys, val \in Vals : LongInsert(pKey, val)

SpecLong == Init /\ [][NextLong]_vars

(***************************************************************************)
(* sndict_insert of shastina_util.c.                                       *)
(***************************************************************************)
\* sndict_insert with the test of the sensitive flag inverted, as the
\* comment of sndict_insert in shastina_util.h words it
sndict_insert_inverted(root, nd, sens, pKey, val, translate) ==
  rfdict_insert(root, nd, IF sens = 0 THEN 1 ELSE 0, pKey, val, translate)

\* sndict_insert: the text of the function is that of rfdict_insert with
\* the prefixes sndict_ and snu_ctable_ for rfdict_ and rf_ctable_
sndict_insert(root, nd, sens, pKey, val, translate) ==
  rfdict_insert(root, nd, sens, pKey, val, translate)

SnInsert(pKey, val, translate) ==
  /\ ~fault
  /\ \E r \in {sndict_insert(pRoot, node, sensitive, pKey, val, translate)} :
        /\ Cardinality(DOMAIN r.node) <= MaxNodes
        /\ pRoot' = r.pRoot
        /\ node' = r.node
        /\ fault' = r.fault
        /\ retval' = r.status
        /\ inserted' = IF r.status # 0 /\ ~r.fault
                         THEN inserted \cup {<<pKey, val>>} ELSE inserted
  /\ IF (translate # 0) /\ (Len(pKey) > 0) /\ ~keyTooLong(Len(pKey))
       THEN snu_ctable_init' = 1 /\ snu_ctable' = rf_ctable
       ELSE UNCHANGED <<snu_ctable_init, snu_ctable>>
  /\ call' = [fn |-> "sndict_insert", pKey |-> pKey, val |-> val]
  /\ UNCHANGED <<sensitive, rf_ctable_init, stepVars, thread>>

NextSn ==
  \E pKey \in Keys, val \in Vals, translate \in {0, 1} :
    SnInsert(pKey, val, translate)

SpecSn == Init /\ [][NextSn]_vars

(***************************************************************************)
(* Stepwise execution of rfdict_get, rfdict_insert and rfdict_free: every  *)
(* step runs one iteration of the loop the call is in, and the code that   *)
(* follows the loop when the loop is left.  frame holds the locals.        *)
(***************************************************************************)
\* the block of the RFDICT object, allocated by rfdict_alloc
pDict == -1

\* the keys of the stepwise runs, one byte each, in increasing order
StepKeyAt(i) == <<ASCII_UPPER_A + i>>
StepKeys == {StepKeyAt(i) : i \in 0 .. (MaxStepNodes - 1)}
StepGetKeys == StepKeys \cup {<<ASCII_LOWER_A>>}

\* the caller presents the keys sorted, upwards from the first or downwards
\* from the last, and may present a key again
Arrives(pKey) ==
  IF DOMAIN node = {}
    THEN pKey \in {StepKeyAt(0), StepKeyAt(MaxStepNodes - 1)}
    ELSE \E n \in DOMAIN node : (node[n].key[1] - pKey[1]) \in {-1, 0, 1}

\* rfdict_find: the branch taken after a comparison that was not equal
findNext(nd, pCurrent, r) ==
  IF r < 0 THEN nd[pCurrent].pLeft ELSE nd[pCurrent].pRight

\* rfdict_get is called: rfdict_find starts at the root
GetStart(pKey, dvalue) ==
  /\ pc = "idle"
  /\ ~fault
  /\ pc' = "find"
  /\ frame' = [pKey |-> pKey, dvalue |-> dvalue, pCurrent |-> pRoot]
  /\ call' = [fn |-> "rfdict_get"]
  /\ UNCHANGED <<pRoot, sensitive, node, rf_ctable_init, fault, retval,
                 inserted, freed, ctableVars>>

\* one test of the while loop of rfdict_find with its body; when the loop
\* is left, rfdict_get returns
FindStep ==
  /\ pc = "find"
  /\ ~fault
  /\ IF frame.pCurrent = NULL
       THEN pc' = "idle" /\ frame' = <<>> /\ retval' = frame.dvalue
       ELSE LET r == rfdict_keycmp(frame.pKey, node[frame.pCurrent].key,
                                   sensitive)
            IN IF r = 0
                 THEN /\ pc' = "idle"
                      /\ frame' = <<>>
                      /\ retval' = node[frame.pCurrent].val
                 ELSE /\ frame' = [frame EXCEPT
                             !.pCurrent = findNext(node, frame.pCurrent, r)]
                      /\ UNCHANGED <<pc, retval>>
  /\ UNCHANGED <<pRoot, sensitive, node, rf_ctable_init, fault, call,
                 inserted, freed, ctableVars>>

\* a descent that goes back to the parent of a node below the root
descendNext_up(nd, pCurrent, r) ==
  IF nd[pCurrent].pParent # NULL THEN nd[pCurrent].pParent
  ELSE IF r > 0 THEN nd[pCurrent].pLeft ELSE nd[pCurrent].pRight

\* the branch the descent of rfdict_insert goes down
descendNext(nd, pCurrent, r) ==
  IF r > 0 THEN nd[pCurrent].pLeft ELSE nd[pCurrent].pRight

\* a pass that leaves the right child of the grandparent red
recolorOnce_left(nd, pGrand) ==
  LET n1 == [nd EXCEPT ![nd[pGrand].pLeft].red = 0]
  IN [n1 EXCEPT ![pGrand].red = grandColor(n1, pGrand)]

\* one pass of the recoloring loop over the grandparent pGrand
recolorOnce(nd, pGrand) ==
  LET n1 == [nd EXCEPT ![nd[pGrand].pLeft].red = 0]
      n2 == [n1 EXCEPT ![n1[pGrand].pRight].red = 0]
  IN [n2 EXCEPT ![pGrand].red = grandColor(n2, pGrand)]

\* rfdict_insert from the rotation cases to its return, with pNode the
\* current node
InsertReturn(D, pNode) ==
  \E D2 \in {rotateFix(D, pNode)} :
    /\ pRoot' = D2.pRoot
    /\ node' = D2.node
    /\ fault' = D2.fault
    /\ retval' = 1
    /\ inserted' = IF D2.fault THEN inserted
                   ELSE inserted \cup {<<frame.pKey, frame.val>>}
    /\ pc' = "idle"
    /\ frame' = <<>>

\* rfdict_insert from the linking of the new node to the first test of
\* the recoloring loop
RecolorEnter(D, pNode) ==
  IF (rfdict_isred(D.node, pNode) = 1) /\
     (rfdict_isred(D.node, D.node[pNode].pParent) = 1)
    THEN IF grandOf(D.node, pNode) = NULL
           THEN /\ fault' = TRUE
                /\ node' = D.node
                /\ UNCHANGED <<pRoot, retval, inserted, pc, frame>>
           ELSE /\ node' = D.node
                /\ pc' = "recolor"
                /\ frame' = [frame EXCEPT !.pNode = pNode,
                               !.pGrand = grandOf(D.node, pNode)]
                /\ UNCHANGED <<pRoot, fault, retval, inserted>>
    ELSE InsertReturn(D, pNode)

\* rfdict_insert is called: the node is allocated and filled in; it
\* becomes the root of an empty tree, else the descent starts at the root
InsertStart(pKey, val) ==
  /\ pc = "idle"
  /\ ~fault
  /\ Arrives(pKey)
  /\ call' = [fn |-> "rfdict_insert"]
  /\ IF keyTooLong(Len(pKey))
       THEN /\ fault' = TRUE
            /\ UNCHANGED <<pRoot, node, retval, inserted, pc, frame>>
       ELSE LET k == IF sensitive = 0 THEN foldKey(pKey) ELSE pKey
                pNode == malloc(node, k)
                fresh == [pParent |-> NULL, pLeft |-> NULL, pRight |-> NULL,
                          val |-> val, red |-> 0, key |-> k]
                nd1 == [a \in (DOMAIN node) \cup {pNode} |->
                          IF a = pNode THEN fresh ELSE node[a]]
            IN IF pRoot = NULL
                 THEN /\ pRoot' = pNode
                      /\ node' = [nd1 EXCEPT ![pNode].pParent = NULL,
                                             ![pNode].red = 0]
                      /\ retval' = 1
                      /\ inserted' = inserted \cup {<<pKey, val>>}
                      /\ UNCHANGED <<fault, pc, frame>>
                 ELSE /\ node' = nd1
                      /\ pc' = "descend"
                      /\ frame' = [pKey |-> pKey, val |-> val,
                                   pNode |-> pNode, pNew |-> pNode,
                                   pCurrent |-> pRoot,
                                   pGrand |-> NULL,
                                   entry |-> [pRoot |-> pRoot, node |-> node]]
                      /\ UNCHANGED <<pRoot, fault, retval, inserted>>
  /\ UNCHANGED <<sensitive, rf_ctable_init, freed, ctableVars>>

\* one pass of the for loop that looks for the position of the new key;
\* when the loop is left, the node is linked or rejected
DescendStep ==
  /\ pc = "descend"
  /\ ~fault
  /\ LET pNode == frame.pNode
         pCurrent == frame.pCurrent
         r == strcmp(node[pCurrent].key, node[pNode].key)
     IN IF r = 0
          THEN /\ node' = rejectNode(node, pNode)
               /\ retval' = 0
               /\ pc' = "idle"
               /\ frame' = <<>>
               /\ UNCHANGED <<pRoot, fault, inserted>>
        ELSE IF ((node[pCurrent].pLeft = NULL) /\ (r > 0)) \/
                ((node[pCurrent].pRight = NULL) /\ (r < 0))
          THEN RecolorEnter(
                 [pRoot |-> pRoot, fault |-> FALSE,
                  node |-> IF r > 0
                    THEN [node EXCEPT ![pCurrent].pLeft = pNode,
                                      ![pNode].pParent = pCurrent,
                                      ![pNode].red = 1]
                    ELSE [node EXCEPT ![pCurrent].pRight = pNode,
                                      ![pNode].pParent = pCurrent,
                                      ![pNode].red = 1]],
                 pNode)
        ELSE /\ frame' = [frame EXCEPT
                    !.pCurrent = descendNext(node, pCurrent, r)]
             /\ UNCHANGED <<pRoot, node, fault, retval, inserted, pc>>
  /\ UNCHANGED <<sensitive, rf_ctable_init, call, freed, ctableVars>>

\* one test of the while loop over the grandparent with its body; when
\* the loop is left, the rotation cases follow and the call returns
RecolorStep ==
  /\ pc = "recolor"
  /\ ~fault
  /\ LET pGrand == frame.pGrand
     IN IF (rfdict_isred(node, node[pGrand].pLeft) = 1) /\
           (rfdict_isred(node, node[pGrand].pRight) = 1)
          THEN
            LET n3 == recolorOnce(node, pGrand)
            IN IF (rfdict_isred(n3, pGrand) = 1) /\
                  (rfdict_isred(n3, n3[pGrand].pParent) = 1)
                 THEN IF grandOf(n3, pGrand) = NULL
                        THEN /\ fault' = TRUE
                             /\ node' = n3
                             /\ UNCHANGED <<pRoot, retval, inserted, pc,
                                            frame>>
                        ELSE /\ node' = n3
                             /\ frame' = [frame EXCEPT !.pNode = pGrand,
                                            !.pGrand = grandOf(n3, pGrand)]
                             /\ UNCHANGED <<pRoot, fault, retval, inserted,
                                            pc>>
                 ELSE InsertReturn(
                        [pRoot |-> pRoot, node |-> n3, fault |-> FALSE],
                        pGrand)
          ELSE InsertReturn(
                 [pRoot |-> pRoot, node |-> node, fault |-> FALSE],
                 frame.pNode)
  /\ UNCHANGED <<sensitive, rf_ctable_init, call, freed, ctableVars>>

\* rfdict_free is called on the dictionary: the walk starts at the root
FreeStart ==
  /\ pc = "idle"
  /\ ~fault
  /\ pc' = "free"
  /\ frame' = [pNode |-> pRoot]
  /\ freed' = <<>>
  /\ call' = [fn |-> "rfdict_free", live |-> DOMAIN node, node |-> node]
  /\ UNCHANGED <<pRoot, sensitive, node, rf_ctable_init, fault, retval,
                 inserted, ctableVars>>

\* rfdict_free: the child the inner loop goes down to
freeNext(nd, pNode) ==
  IF nd[pNode].pLeft # NULL THEN nd[pNode].pLeft ELSE nd[pNode].pRight

\* one pass of the inner loop of rfdict_free: the node has a child
FreeDescend ==
  /\ pc = "free"
  /\ ~fault
  /\ frame.pNode # NULL
  /\ frame.pNode \in DOMAIN node
  /\ (node[frame.pNode].pLeft # NULL) \/ (node[frame.pNode].pRight # NULL)
  /\ frame' = [frame EXCEPT !.pNode = freeNext(node, frame.pNode)]
  /\ UNCHANGED <<pRoot, sensitive, node, rf_ctable_init, fault, call,
                 retval, inserted, pc, freed, ctableVars>>

\* rfdict_free with the link of the parent left in place
unlinkChild_keep(nd, pParent, pNode) == [node |-> nd, fault |-> FALSE]

\* rfdict_free with both links of the parent cleared
unlinkChild_both(nd, pParent, pNode) ==
  [node |-> [nd EXCEPT ![pParent].pLeft = NULL, ![pParent].pRight = NULL],
   fault |-> FALSE]

\* rfdict_free: the childless node is unlinked from its parent
unlinkChild(nd, pParent, pNode) ==
  IF nd[pParent].pLeft = pNode
    THEN [node |-> [nd EXCEPT ![pParent].pLeft = NULL], fault |-> FALSE]
  ELSE IF nd[pParent].pRight = pNode
    THEN [node |-> [nd EXCEPT ![pParent].pRight = NULL], fault |-> FALSE]
  ELSE [node |-> nd, fault |-> TRUE]

\* the rest of a pass of the outer loop of rfdict_free: the childless node
\* is unlinked and released, the walk goes on at its parent.  A node that
\* is no longer allocated is read and released again: the allocator may
\* abort or not, and the walk is lost.
FreeRelease ==
  /\ pc = "free"
  /\ ~fault
  /\ frame.pNode # NULL
  /\ IF frame.pNode \notin DOMAIN node
       THEN \E crash \in BOOLEAN :
              /\ fault' = crash
              /\ freed' = Append(freed, frame.pNode)
              /\ frame' = [frame EXCEPT !.pNode = NULL]
              /\ UNCHANGED node
       ELSE /\ (node[frame.pNode].pLeft = NULL)
            /\ (node[frame.pNode].pRight = NULL)
            /\ LET pNode == frame.pNode
                   pParent == node[pNode].pParent
                   u == IF pParent # NULL
                          THEN unlinkChild(node, pParent, pNode)
                          ELSE [node |-> node, fault |-> FALSE]
               IN IF u.fault
                    THEN fault' = TRUE /\ UNCHANGED <<node, freed, frame>>
                    ELSE /\ node' = free(u.node, pNode)
                         /\ freed' = Append(freed, pNode)
                         /\ frame' = [frame EXCEPT !.pNode = pParent]
                         /\ UNCHANGED fault
  /\ UNCHANGED <<pRoot, sensitive, rf_ctable_init, call, retval, inserted,
                 pc, ctableVars>>

\* rfdict_free: all nodes are released, the dictionary object follows
FreeDict ==
  /\ pc = "free"
  /\ ~fault
  /\ frame.pNode = NULL
  /\ freed' = Append(freed, pDict)
  /\ pc' = "freed"
  /\ frame' = <<>>
  /\ UNCHANGED <<pRoot, sensitive, node, rf_ctable_init, fault, call,
                 retval, inserted, ctableVars>>

\* the steps of a call that has been made
Running ==
  \/ FindStep
  \/ DescendStep
  \/ RecolorStep
  \/ FreeDescend
  \/ FreeRelease
  \/ FreeDict

NextSteps ==
  \/ \E pKey \in StepKeys : InsertStart(pKey, 1)
  \/ \E pKey \in StepGetKeys : GetStart(pKey, 0)
  \/ FreeStart
  \/ Running

SpecSteps == Init /\ [][NextSteps]_vars

\* the program is sequential: a function that has been called runs on
SpecStepsFair == SpecSteps /\ WF_vars(Running)

(***************************************************************************)
(* The rebalancing of rfdict_insert step by step, on trees built in any    *)
(* order: a call runs up to the end of the recoloring loop, then tests     *)
(* for the rotation cases and sets the colors, then makes the rotations    *)
(* one at a time.  frame keeps the locals, the state at the call and the   *)
(* state the rotation cases found.                                         *)
(***************************************************************************)
FixKeys == {<<c>> : c \in ASCII_UPPER_A .. (ASCII_UPPER_A + MaxFixNodes - 1)}

\* keys above the others, presented last and in rising order
FixTailKeys ==
  {<<c>> : c \in (ASCII_UPPER_A + MaxFixNodes) ..
                 (ASCII_UPPER_A + MaxFixNodes + FixTail - 1)}

\* the caller presents the keys of FixKeys in any order and then, to a
\* tree that holds MaxFixNodes nodes or more, keys above all stored ones
FixArrives(pKey, nd2) ==
  IF pKey \in FixKeys THEN Cardinality(DOMAIN nd2) <= MaxFixNodes
  ELSE /\ Cardinality(DOMAIN node) >= MaxFixNodes
       /\ \A n \in DOMAIN node : node[n].key[1] < pKey[1]

\* the rotation cases with the second rotation of the two-rotation cases
\* left out
rotationPlan_single(nd, pNode, pParent, pGrand) ==
  IF (pNode = nd[pParent].pRight) /\ (pParent = nd[pGrand].pLeft)
    THEN [pInner |-> pNode, matched |-> TRUE,
          todo |-> <<[fn |-> "rfdict_rol", pNode |-> pParent]>>]
  ELSE IF (pNode = nd[pParent].pLeft) /\ (pParent = nd[pGrand].pRight)
    THEN [pInner |-> pNode, matched |-> TRUE,
          todo |-> <<[fn |-> "rfdict_ror", pNode |-> pParent]>>]
  ELSE IF (pNode = nd[pParent].pLeft) /\ (pParent = nd[pGrand].pLeft)
    THEN [pInner |-> pParent, matched |-> TRUE,
          todo |-> <<[fn |-> "rfdict_ror", pNode |-> pGrand]>>]
  ELSE IF (pNode = nd[pParent].pRight) /\ (pParent = nd[pGrand].pRight)
    THEN [pInner |-> pParent, matched |-> TRUE,
          todo |-> <<[fn |-> "rfdict_rol", pNode |-> pGrand]>>]
  ELSE [pInner |-> NULL, matched |-> FALSE, todo |-> <<>>]

\* the four rebalancing cases: the node that is colored black and the
\* rotations that follow, in the order the code makes them
rotationPlan(nd, pNode, pParent, pGrand) ==
  IF (pNode = nd[pParent].pRight) /\ (pParent = nd[pGrand].pLeft)
    THEN [pInner |-> pNode, matched |-> TRUE,
          todo |-> <<[fn |-> "rfdict_rol", pNode |-> pParent],
                     [fn |-> "rfdict_ror", pNode |-> pGrand]>>]
  ELSE IF (pNode = nd[pParent].pLeft) /\ (pParent = nd[pGrand].pRight)
    THEN [pInner |-> pNode, matched |-> TRUE,
          todo |-> <<[fn |-> "rfdict_ror", pNode |-> pParent],
                     [fn |-> "rfdict_rol", pNode |-> pGrand]>>]
  ELSE IF (pNode = nd[pParent].pLeft) /\ (pParent = nd[pGrand].pLeft)
    THEN [pInner |-> pParent, matched |-> TRUE,
          todo |-> <<[fn |-> "rfdict_ror", pNode |-> pGrand]>>]
  ELSE IF (pNode = nd[pParent].pRight) /\ (pParent = nd[pGrand].pRight)
    THEN [pInner |-> pParent, matched |-> TRUE,
          todo |-> <<[fn |-> "rfdict_rol", pNode |-> pGrand]>>]
  ELSE [pInner |-> NULL, matched |-> FALSE, todo |-> <<>>]

\* rfdict_insert returns 1
FixReturn ==
  /\ pc' = "idle"
  /\ frame' = <<>>
  /\ retval' = 1
  /\ inserted' = inserted \cup {<<frame.pKey, 1>>}

\* rfdict_insert is called and runs to the end of the recoloring loop
FixInsert(pKey) ==
  /\ pc = "idle"
  /\ ~fault
  /\ call' = [fn |-> "rfdict_insert"]
  /\ IF keyTooLong(Len(pKey))
       THEN /\ fault' = TRUE
            /\ UNCHANGED <<pRoot, node, retval, inserted, pc, frame>>
       ELSE LET k == IF sensitive = 0 THEN foldKey(pKey) ELSE pKey
                pNode == malloc(node, k)
                fresh == [pParent |-> NULL, pLeft |-> NULL, pRight |-> NULL,
                          val |-> 1, red |-> 0, key |-> k]
                nd1 == [a \in (DOMAIN node) \cup {pNode} |->
                          IF a = pNode THEN fresh ELSE node[a]]
            IN \E l \in {linkNode(pRoot, nd1, pNode)} :
                 /\ FixArrives(pKey, l.node)
                 /\ IF l.status = 0
                      THEN /\ node' = l.node
                           /\ retval' = 0
                           /\ UNCHANGED <<pRoot, fault, inserted, pc, frame>>
                      ELSE \E c \in {recolor([pRoot |-> l.pRoot,
                                              node |-> l.node,
                                              fault |-> FALSE], l.pNode)} :
                             /\ pRoot' = c.D.pRoot
                             /\ node' = c.D.node
                             /\ fault' = c.D.fault
                             /\ pc' = "fix"
                             /\ frame' = [pKey |-> pKey, pNew |-> pNode,
                                          pNode |-> c.pNode,
                                          entry |-> [pRoot |-> pRoot,
                                                     node |-> node],
                                          pCurrent |-> l.node[pNode].pParent,
                                          loop |-> [pRoot |-> c.D.pRoot,
                                                    node |-> c.D.node],
                                          todo |-> <<>>, rotations |-> 0]
                             /\ UNCHANGED <<retval, inserted>>
  /\ UNCHANGED <<sensitive, rf_ctable_init, freed, ctableVars>>

\* the test for the rotation cases after the loop: the colors of the case
\* that matches are set and its rotations are due, or the call returns
FixStep ==
  /\ pc = "fix"
  /\ ~fault
  /\ LET pNode == frame.pNode
         pParent == node[pNode].pParent
     IN IF (rfdict_isred(node, pNode) = 1) /\
           (rfdict_isred(node, pParent) = 1)
          THEN
            LET pGrand == grandOf(node, pNode)
            IN IF pGrand = NULL
                 THEN /\ fault' = TRUE
                      /\ UNCHANGED <<pRoot, node, retval, inserted, pc,
                                     frame>>
               ELSE IF needsRotation(node, pGrand)
                 THEN
                   \E plan \in {rotationPlan(node, pNode, pParent,
                                             pGrand)} :
                     IF plan.matched
                       THEN /\ node' = rotationColors(
                                         [pRoot |-> pRoot, node |-> node,
                                          fault |-> FALSE],
                                         plan.pInner, pGrand).node
                            /\ pc' = "rotate"
                            /\ frame' = [frame EXCEPT !.todo = plan.todo]
                            /\ UNCHANGED <<pRoot, fault, retval, inserted>>
                       ELSE /\ fault' = TRUE
                            /\ UNCHANGED <<pRoot, node, retval, inserted,
                                           pc, frame>>
               ELSE FixReturn /\ UNCHANGED <<pRoot, node, fault>>
          ELSE FixReturn /\ UNCHANGED <<pRoot, node, fault>>
  /\ UNCHANGED <<sensitive, rf_ctable_init, call, freed, ctableVars>>

\* the next rotation of the case is made; after the last one the call
\* returns
RotateStep ==
  /\ pc = "rotate"
  /\ ~fault
  /\ LET h == Head(frame.todo)
         D == [pRoot |-> pRoot, node |-> node, fault |-> FALSE]
     IN \E D2 \in {IF h.fn = "rfdict_rol" THEN rfdict_rol(D, h.pNode)
                   ELSE rfdict_ror(D, h.pNode)} :
          /\ pRoot' = D2.pRoot
          /\ node' = D2.node
          /\ fault' = D2.fault
          /\ IF D2.fault
               THEN UNCHANGED <<retval, inserted, pc, frame>>
             ELSE IF Tail(frame.todo) = <<>>
               THEN FixReturn
             ELSE /\ frame' = [frame EXCEPT !.todo = Tail(frame.todo),
                                            !.rotations = @ + 1]
                  /\ UNCHANGED <<retval, inserted, pc>>
  /\ UNCHANGED <<sensitive, rf_ctable_init, call, freed, ctableVars>>

\* rfdict_get between two insertions
FixGet(pKey) ==
  /\ pc = "idle"
  /\ ~fault
  /\ retval' = rfdict_get(pRoot, node, pKey, 0, sensitive)
  /\ call' = [fn |-> "rfdict_get"]
  /\ UNCHANGED <<pRoot, sensitive, node, rf_ctable_init, fault, inserted,
                 stepVars, ctableVars>>

NextFix ==
  \/ \E pKey \in FixKeys \cup FixTailKeys : FixInsert(pKey)
  \/ FixStep
  \/ RotateStep
  \/ \E pKey \in FixKeys : FixGet(pKey)

SpecFix == Init /\ [][NextFix]_vars

(***************************************************************************)
(* The character table of shastina_util.c as a shared array.  The main     *)
(* thread calls snu_ctable_prepare at the start of the program, then       *)
(* starts the other threads; every thread calls snu_ctable_prepare and     *)
(* snu_ctable_ascii, one access to the table or its flag per step.         *)
(***************************************************************************)
CtChars == {char_ref(0), char_ref(94), ASCII_LOWER_A, CONTROL, 256}

idleThread == [pc |-> "idle", fn |-> "none", source_c |-> 0, ascii_c |-> 0]

\* snu_ctable_prepare that fills the table in on every call
prepareNeeded_always(init) == TRUE

\* snu_ctable_prepare: only do something if not yet initialized
prepareNeeded(init) == init = 0

\* where a thread goes on when snu_ctable_prepare returns
prepareReturn(th) ==
  IF th.fn = "snu_ctable_ascii" THEN [th EXCEPT !.pc = "lookup"]
  ELSE idleThread

CallPrepare(t) ==
  /\ ~fault
  /\ t \in DOMAIN thread
  /\ thread[t].pc \in {"start", "idle"}
  /\ thread' = [thread EXCEPT ![t] = [pc |-> "test",
                    fn |-> "snu_ctable_prepare", source_c |-> 0,
                    ascii_c |-> 0]]
  /\ UNCHANGED <<pRoot, sensitive, node, rf_ctable_init, fault, call,
                 retval, inserted, stepVars, snu_ctable, snu_ctable_init>>

\* the main thread starts the other threads, after its call has returned
Spawn ==
  /\ ~fault
  /\ DOMAIN thread = {0}
  /\ thread[0].pc = "idle"
  /\ thread' = [t \in 0 .. CtThreads |-> idleThread]
  /\ UNCHANGED <<pRoot, sensitive, node, rf_ctable_init, fault, call,
                 retval, inserted, stepVars, snu_ctable, snu_ctable_init>>

\* snu_ctable_ascii is called: the range check, then snu_ctable_prepare
CallAscii(t, source_c) ==
  /\ ~fault
  /\ t \in DOMAIN thread
  /\ thread[t].pc = "idle"
  /\ IF (source_c < -128) \/ (source_c > 255)
       THEN /\ fault' = TRUE
            /\ thread' = [thread EXCEPT ![t] = [pc |-> "abort",
                              fn |-> "snu_ctable_ascii",
                              source_c |-> source_c, ascii_c |-> 0]]
       ELSE /\ thread' = [thread EXCEPT ![t] = [pc |-> "test",
                              fn |-> "snu_ctable_ascii",
                              source_c |-> source_c, ascii_c |-> 0]]
            /\ UNCHANGED fault
  /\ UNCHANGED <<pRoot, sensitive, node, rf_ctable_init, call, retval,
                 inserted, stepVars, snu_ctable, snu_ctable_init>>

\* snu_ctable_prepare reads the flag
PrepareTest(t) ==
  /\ ~fault
  /\ t \in DOMAIN thread
  /\ thread[t].pc = "test"
  /\ thread' = [thread EXCEPT ![t] =
                  IF prepareNeeded(snu_ctable_init)
                    THEN [thread[t] EXCEPT !.pc = "memset"]
                    ELSE prepareReturn(thread[t])]
  /\ UNCHANGED <<pRoot, sensitive, node, rf_ctable_init, fault, call,
                 retval, inserted, stepVars, snu_ctable, snu_ctable_init>>

\* snu_ctable_prepare clears the table
PrepareMemset(t) ==
  /\ ~fault
  /\ t \in DOMAIN thread
  /\ thread[t].pc = "memset"
  /\ snu_ctable' = [source_c \in 0 .. 255 |-> 0]
  /\ thread' = [thread EXCEPT ![t].pc = "loop", ![t].ascii_c = 32]
  /\ UNCHANGED <<pRoot, sensitive, node, rf_ctable_init, fault, call,
                 retval, inserted, stepVars, snu_ctable_init>>

\* one pass of the loop of snu_ctable_prepare over the ASCII characters;
\* when the loop is left the flag is set and the function returns
PrepareLoop(t) ==
  /\ ~fault
  /\ t \in DOMAIN thread
  /\ thread[t].pc = "loop"
  /\ IF thread[t].ascii_c <= 126
       THEN LET c == char_ref(thread[t].ascii_c - 32)
                source_c == IF c < 0 THEN c + 256 ELSE c
            IN IF (c = 0) \/ (snu_ctable[source_c] # 0)
                 THEN /\ fault' = TRUE
                      /\ thread' = [thread EXCEPT ![t].pc = "abort"]
                      /\ UNCHANGED <<snu_ctable, snu_ctable_init>>
                 ELSE /\ snu_ctable' = [snu_ctable EXCEPT
                                          ![source_c] = thread[t].ascii_c]
                      /\ thread' = [thread EXCEPT
                                      ![t].ascii_c = thread[t].ascii_c + 1]
                      /\ UNCHANGED <<fault, snu_ctable_init>>
       ELSE /\ snu_ctable_init' = 1
            /\ thread' = [thread EXCEPT ![t] = prepareReturn(thread[t])]
            /\ UNCHANGED <<fault, snu_ctable>>
  /\ UNCHANGED <<pRoot, sensitive, node, rf_ctable_init, call, retval,
                 inserted, stepVars>>

\* snu_ctable_ascii looks the character up and returns it
AsciiLookup(t) ==
  /\ ~fault
  /\ t \in DOMAIN thread
  /\ thread[t].pc = "lookup"
  /\ LET source_c == IF thread[t].source_c < 0
                       THEN thread[t].source_c + 256
                       ELSE thread[t].source_c
         ascii_c == snu_ctable[source_c]
     IN IF ascii_c = 0
          THEN /\ fault' = TRUE
               /\ thread' = [thread EXCEPT ![t].pc = "abort"]
               /\ UNCHANGED retval
          ELSE /\ retval' = ascii_c
               /\ thread' = [thread EXCEPT ![t] = idleThread]
               /\ UNCHANGED fault
  /\ UNCHANGED <<pRoot, sensitive, node, rf_ctable_init, call, inserted,
                 stepVars, snu_ctable, snu_ctable_init>>

NextCtable ==
  \/ Spawn
  \/ \E t \in 0 .. CtThreads :
       \/ CallPrepare(t)
       \/ \E source_c \in CtChars : CallAscii(t, source_c)
       \/ PrepareTest(t)
       \/ PrepareMemset(t)
       \/ PrepareLoop(t)
       \/ AsciiLookup(t)

SpecCtable == Init /\ [][NextCtable]_vars

(***************************************************************************)
(* Reference notions used to state the properties.                         *)
(***************************************************************************)
\* a key with its letters a-z replaced by A-Z
Upper(k) ==
  [i \in 1 .. Len(k) |->
     IF k[i] \in ASCII_LOWER_A .. ASCII_LOWER_Z
       THEN k[i] - ASCII_LOWER_A + ASCII_UPPER_A ELSE k[i]]

\* first position where two keys differ, one past the shorter if none
RECURSIVE FirstDiff(_, _, _)
FirstDiff(x, y, i) ==
  IF i > Len(x) \/ i > Len(y) THEN i
  ELSE IF x[i] # y[i] THEN i ELSE FirstDiff(x, y, i + 1)

\* byte-wise lexicographic order of two keys: -1, 0 or 1
ByteOrder(x, y) ==
  LET i == FirstDiff(x, y, 1)
      a == IF i <= Len(x) THEN x[i] ELSE 0
      b == IF i <= Len(y) THEN y[i] ELSE 0
  IN IF a = b THEN 0 ELSE IF a < b THEN -1 ELSE 1

\* the order the dictionary is configured with
KeyOrder(x, y) ==
  IF sensitive # 0 THEN ByteOrder(x, y) ELSE ByteOrder(Upper(x), Upper(y))

KeyEqual(x, y) == KeyOrder(x, y) = 0

Live == DOMAIN node

\* the nodes that can be reached from the nodes of S through child links
RECURSIVE Closure(_)
Closure(S) ==
  LET T == (S \cup {node[n].pLeft : n \in S} \cup {node[n].pRight : n \in S})
             \cap Live
  IN IF T = S THEN S ELSE Closure(T)

\* the nodes of the subtree whose root is p
Subtree(p) == Closure({p} \cap Live)

IsRed(n) == n \in Live /\ node[n].red # 0

\* number of black nodes from n up to the root, both included
RECURSIVE BlackDepthUp(_, _)
BlackDepthUp(n, fuel) ==
  IF n \notin Live \/ fuel = 0 THEN 0
  ELSE (IF node[n].red = 0 THEN 1 ELSE 0)
         + BlackDepthUp(node[n].pParent, fuel - 1)

BlackDepth(n) == BlackDepthUp(n, Cardinality(Live))

ExitNodes == {n \in Live : node[n].pLeft = NULL \/ node[n].pRight = NULL}

\* number of nodes on the path from n up to the root
RECURSIVE DepthUp(_, _)
DepthUp(n, fuel) ==
  IF n \notin Live \/ fuel = 0 THEN 0
  ELSE 1 + DepthUp(node[n].pParent, fuel - 1)

Depth(n) == DepthUp(n, Cardinality(Live))

InsertReturned == call.fn = "rfdict_insert" /\ ~fault

(***************************************************************************)
(* C1: every pair whose insertion succeeded is found again: rfdict_get     *)
(* with that key returns that value, whatever the default, in both kinds   *)
(* of dictionary and after any further insertions.                         *)
(***************************************************************************)
C1_RoundTrip ==
  call.fn = "rfdict_get" =>
    \A p \in inserted : p[1] = call.pKey => retval = p[2]

(***************************************************************************)
(* C2: for a key that equals no key ever inserted with success (equal      *)
(* under the order the dictionary is configured with), rfdict_get returns  *)
(* the default it was given.                                               *)
(***************************************************************************)
C2_DefaultLaw ==
  (call.fn = "rfdict_get" /\ ~(\E p \in inserted : KeyEqual(p[1], call.pKey)))
    => retval = call.dvalue

(***************************************************************************)
(* C3: in case-insensitive mode rfdict_keycmp returns the sign of the      *)
(* byte-wise comparison of the two keys after a-z is folded to A-Z in      *)
(* both of them.                                                           *)
(***************************************************************************)
C3_KeycmpFoldsBoth ==
  (call.fn = "rfdict_keycmp" /\ sensitive = 0)
    => retval = ByteOrder(Upper(call.pKey1), Upper(call.pKey2))

(***************************************************************************)
(* C4: after every insertion, every key of the left subtree of a node is   *)
(* less than the key of the node and every key of its right subtree is     *)
(* greater, in the order the dictionary is configured with, and no two     *)
(* nodes hold equal keys.                                                  *)
(***************************************************************************)
C4_BstOrder ==
  ~fault =>
    /\ \A n \in Subtree(pRoot) :
         /\ \A m \in Subtree(node[n].pLeft) :
              KeyOrder(node[m].key, node[n].key) < 0
         /\ \A m \in Subtree(node[n].pRight) :
              KeyOrder(node[m].key, node[n].key) > 0
    /\ \A n \in Live : \A m \in Live :
         n # m => ~KeyEqual(node[n].key, node[m].key)

\* a tree of three levels at least, with keys on both sides of the root
C4_Witness ==
  /\ InsertReturned
  /\ retval = 1
  /\ \E n \in Live : Depth(n) >= 3
  /\ Subtree(node[pRoot].pLeft) # {}
  /\ Subtree(node[pRoot].pRight) # {}

(***************************************************************************)
(* C5: after every insertion no red node has a red parent.                 *)
(***************************************************************************)
C5_NoRedRed ==
  ~fault =>
    \A n \in Live :
      IsRed(n) => /\ ~IsRed(node[n].pParent)
                  /\ ~IsRed(node[n].pLeft)
                  /\ ~IsRed(node[n].pRight)

\* a tree of four levels in which a red node has children
C5_Witness ==
  /\ InsertReturned
  /\ retval = 1
  /\ \E n \in Live : Depth(n) >= 4
  /\ \E n \in Live : IsRed(n) /\ node[n].pLeft # NULL /\ node[n].pRight # NULL

(***************************************************************************)
(* C6: after every insertion all exit nodes (nodes that miss a child)      *)
(* have the same black depth, counted from the node up to the root.        *)
(***************************************************************************)
C6_BlackDepth ==
  ~fault => \A n \in ExitNodes : \A m \in ExitNodes :
              BlackDepth(n) = BlackDepth(m)

\* a red exit node and a black one, on different levels of a tree of four
\* levels, both with a black depth of two
C6_Witness ==
  /\ InsertReturned
  /\ retval = 1
  /\ \E n \in ExitNodes : \E m \in ExitNodes :
       /\ IsRed(n) /\ ~IsRed(m)
       /\ Depth(n) = 4 /\ Depth(m) = 3
       /\ BlackDepth(n) = 2 /\ BlackDepth(m) = 2

(***************************************************************************)
(* C7: after every insertion the root node is black.                       *)
(***************************************************************************)
C7_RootBlack ==
  (~fault /\ pRoot # NULL) => (pRoot \in Live /\ node[pRoot].red = 0)

\* the root has taken part in a recoloring: both its children are black
\* and have children of their own
C7_Witness ==
  /\ InsertReturned
  /\ retval = 1
  /\ pRoot # NULL
  /\ node[pRoot].pLeft # NULL /\ ~IsRed(node[pRoot].pLeft)
  /\ node[pRoot].pRight # NULL /\ ~IsRed(node[pRoot].pRight)
  /\ \E n \in Live : Depth(n) >= 3

(***************************************************************************)
(* C8: after every insertion the links agree: the root has no parent,      *)
(* every other node is exactly one of the two children of its parent,      *)
(* the parent link of every child points to the node that links to it,     *)
(* and every node made by a successful insertion is reached from the root. *)
(***************************************************************************)
C8_LinksConsistent ==
  ~fault =>
    /\ pRoot = NULL => Live = {}
    /\ pRoot # NULL => (pRoot \in Live /\ node[pRoot].pParent = NULL)
    /\ \A n \in Live \ {pRoot} :
         /\ node[n].pParent \in Live
         /\ (node[node[n].pParent].pLeft = n)
              # (node[node[n].pParent].pRight = n)
    /\ \A n \in Live :
         /\ node[n].pLeft # NULL =>
              (node[n].pLeft \in Live /\ node[node[n].pLeft].pParent = n)
         /\ node[n].pRight # NULL =>
              (node[n].pRight \in Live /\ node[node[n].pRight].pParent = n)
    /\ Subtree(pRoot) = Live
    /\ \A p \in inserted :
         \E n \in Subtree(pRoot) :
           node[n].val = p[2] /\ KeyEqual(node[n].key, p[1])

\* a tree of seven nodes or more and four levels, in which a red node
\* below the root has two children: subtrees have been moved by rotations
C8_Witness ==
  /\ InsertReturned
  /\ retval = 1
  /\ Cardinality(Live) >= 7
  /\ \E n \in Live : Depth(n) >= 4
  /\ \E n \in Live \ {pRoot} : IsRed(n) /\ node[n].pLeft # NULL
                                 /\ node[n].pRight # NULL

(***************************************************************************)
(* C9: rfdict_insert returns success exactly when no node holds an equal   *)
(* key (the same bytes in a case-sensitive dictionary, the same bytes      *)
(* after folding a-z to A-Z in a case-insensitive one).                    *)
(***************************************************************************)
C9_InsertIffAbsent ==
  [][(call'.fn = "rfdict_insert" /\ ~fault')
       => ((retval' # 0) <=>
             ~(\E n \in Live : KeyEqual(node[n].key, call'.pKey)))]_vars

\* a key was refused in a case-insensitive dictionary although no node
\* holds its bytes: it differs from a stored key in letter case only
C9_Witness ==
  /\ InsertReturned
  /\ retval = 0
  /\ sensitive = 0
  /\ \A n \in Live : node[n].key # call.pKey
  /\ Cardinality(Live) >= 2

(***************************************************************************)
(* C10: an insertion that fails on a duplicate key leaves the dictionary   *)
(* as it was: the root reference and the links, color, key and value of    *)
(* every node are the same, and the rejected node is no longer allocated.  *)
(***************************************************************************)
C10_DuplicateUnchanged ==
  [][(call'.fn = "rfdict_insert" /\ ~fault' /\ retval' = 0)
       => (pRoot' = pRoot /\ node' = node /\ inserted' = inserted)]_vars

\* a duplicate was refused by a tree of three nodes; the value offered
\* differs from the one stored
C10_Witness ==
  /\ InsertReturned
  /\ retval = 0
  /\ Cardinality(Live) >= 3
  /\ \E n \in Live : KeyEqual(node[n].key, call.pKey)
                      /\ node[n].val # call.val

(***************************************************************************)
(* C11: in a case-insensitive dictionary rfdict_get returns the same       *)
(* result for every key that differs from the key asked for in the case    *)
(* of ASCII letters only, whatever the default and the state of the        *)
(* dictionary; and once a key has been inserted, the insertion of a key    *)
(* that differs from it in letter case only fails as a duplicate.          *)
(***************************************************************************)
\* the bytes that differ from c in the case of an ASCII letter at most
ByteVariants(c) ==
  {c} \cup (IF c \in ASCII_UPPER_A .. ASCII_UPPER_Z
              THEN {c + (ASCII_LOWER_A - ASCII_UPPER_A)} ELSE {})
      \cup (IF c \in ASCII_LOWER_A .. ASCII_LOWER_Z
              THEN {c - (ASCII_LOWER_A - ASCII_UPPER_A)} ELSE {})

\* the keys that differ from k in the case of ASCII letters only
CaseVariants(k) ==
  {v \in [1 .. Len(k) -> UNION {ByteVariants(k[i]) : i \in 1 .. Len(k)}] :
     \A i \in 1 .. Len(k) : v[i] \in ByteVariants(k[i])}

C11_CaseFolding ==
  sensitive = 0 =>
    /\ call.fn = "rfdict_get" =>
         \A v \in CaseVariants(call.pKey) :
           rfdict_get(pRoot, node, v, call.dvalue, sensitive) = retval
    /\ (call.fn = "rfdict_insert" /\ ~fault) =>
         \A p \in inserted :
           (p[1] # call.pKey /\ p[1] \in CaseVariants(call.pKey))
             => retval = 0

\* a lookup with a lowercase key that finds the value inserted under the
\* uppercase spelling, in a dictionary of two nodes or more
C11_Witness ==
  /\ sensitive = 0
  /\ call.fn = "rfdict_get"
  /\ call.pKey = <<ASCII_LOWER_A>>
  /\ retval # call.dvalue
  /\ \E p \in inserted : p[1] = <<ASCII_UPPER_A>> /\ p[2] = retval
  /\ Cardinality(Live) >= 2

(***************************************************************************)
(* C12: after the insertion of n distinct keys, in any order, the height   *)
(* h of the tree (the number of nodes on the longest path from the root    *)
(* down to a leaf) is at most 2*log2(n+1)+1, which in integers reads       *)
(* 2^(h-1) <= (n+1)^2; and the tree is no chain: with three nodes or more  *)
(* the height is less than the number of nodes.                            *)
(***************************************************************************)
RECURSIVE Pow2(_)
Pow2(e) == IF e <= 0 THEN 1 ELSE 2 * Pow2(e - 1)

\* number of nodes on the longest path from p down to a leaf
RECURSIVE HeightFrom(_, _)
HeightFrom(p, fuel) ==
  IF p \notin Live \/ fuel = 0 THEN 0
  ELSE LET l == HeightFrom(node[p].pLeft, fuel - 1)
           r == HeightFrom(node[p].pRight, fuel - 1)
       IN 1 + (IF l >= r THEN l ELSE r)

Height == HeightFrom(pRoot, Cardinality(Live))

C12_HeightLog ==
  ~fault =>
    LET n == Cardinality(inserted)
        h == Height
    IN /\ Cardinality(Subtree(pRoot)) = n
       /\ h >= 1 => Pow2(h - 1) <= (n + 1) * (n + 1)
       /\ n >= 3 => h < n

\* eight keys have been inserted and the tree has four levels, where a
\* chain of eight nodes would break the bound (2^7 > 9^2)
C12_Witness ==
  /\ InsertReturned
  /\ Cardinality(inserted) = 8
  /\ Height = 4
  /\ Pow2(Cardinality(inserted) - 1)
       > (Cardinality(inserted) + 1) * (Cardinality(inserted) + 1)

(***************************************************************************)
(* C13: every successful rfdict_insert adds exactly one node and a failed  *)
(* one adds none: the number of nodes met by walking the tree down from    *)
(* the root equals the number of insertions that returned success, every   *)
(* allocated node is met exactly once, and no insertion, rebalancing       *)
(* included, takes a node away.                                            *)
(***************************************************************************)
\* number of nodes met by a walk from p down through the child links; a
\* node that is linked twice is counted twice
RECURSIVE CountFrom(_, _)
CountFrom(p, fuel) ==
  IF p \notin Live \/ fuel = 0 THEN 0
  ELSE 1 + CountFrom(node[p].pLeft, fuel - 1)
         + CountFrom(node[p].pRight, fuel - 1)

NodeCount == CountFrom(pRoot, Cardinality(Live) + 1)

C13_OneNodePerInsert ==
  /\ [](~fault => /\ NodeCount = Cardinality(inserted)
                  /\ Subtree(pRoot) = Live
                  /\ Cardinality(Live) = NodeCount)
  /\ [][(call'.fn = "rfdict_insert" /\ ~fault') =>
          IF retval' # 0
            THEN /\ Live \subseteq Live'
                 /\ Cardinality(Live') = Cardinality(Live) + 1
                 /\ NodeCount' = NodeCount + 1
            ELSE /\ Live' = Live
                 /\ NodeCount' = NodeCount]_vars

\* the eighth node has been added to a tree in which a red node has two
\* children, and a further insertion has been refused
C13_Witness ==
  /\ InsertReturned
  /\ retval = 0
  /\ NodeCount = 8
  /\ Cardinality(inserted) = 8
  /\ \E n \in Live : IsRed(n) /\ Subtree(node[n].pLeft) # {}
                      /\ Subtree(node[n].pRight) # {}

C16_GetPure ==
  [][(call'.fn = "rfdict_get") =>
       (pRoot' = pRoot /\ sensitive' = sensitive /\ node' = node
          /\ fault' = fault)]_vars

\* a lookup that went down a tree of three nodes and found its key in a
\* node below the root
C16_Witness ==
  /\ call.fn = "rfdict_get"
  /\ ~fault
  /\ Cardinality(Live) = 3
  /\ \E n \in Live \ {pRoot} :
       /\ rfdict_find(pRoot, node, call.pKey, sensitive) = n
       /\ retval = node[n].val
       /\ retval # call.dvalue

(***************************************************************************)
(* C18: rfdict_insert with a key longer than RFDICT_MAXKEY aborts, and     *)
(* the dictionary is as it was when it does: no node has been allocated    *)
(* or linked.  A key of RFDICT_MAXKEY bytes and the empty key do not       *)
(* abort: they are stored if no equal key is, refused as duplicates if     *)
(* one is.                                                                 *)
(***************************************************************************)
\* the key as rfdict_insert stores it
Stored(k) == IF sensitive = 0 THEN Upper(k) ELSE k

C18_KeyLength ==
  [][(call'.fn = "rfdict_insert") =>
       IF Len(call'.pKey) > RFDICT_MAXKEY
         THEN fault' /\ pRoot' = pRoot /\ node' = node
         ELSE /\ ~fault'
              /\ \E n \in Live' : node'[n].key = Stored(call'.pKey)
              /\ (retval' # 0) <=>
                   ~(\E n \in Live : node[n].key = Stored(call'.pKey))]_vars

\* the dictionary holds the empty key and a key of RFDICT_MAXKEY bytes,
\* and the call with one byte more has aborted
C18_Witness ==
  /\ fault
  /\ call.fn = "rfdict_insert"
  /\ Len(call.pKey) = RFDICT_MAXKEY + 1
  /\ \E n \in Live : node[n].key = <<>>
  /\ \E n \in Live : Len(node[n].key) = RFDICT_MAXKEY

FreedNodes == {freed[i] : i \in 1 .. Len(freed)} \ {pDict}

C15_TeardownOnce ==
  (pc \in {"free", "freed"}) =>
    /\ ~fault
    /\ \A i, j \in 1 .. Len(freed) : (freed[i] = freed[j]) => (i = j)
    /\ FreedNodes \subseteq call.live
    /\ Live = call.live \ FreedNodes
    /\ \A i \in 1 .. Len(freed) :
         (freed[i] = pDict) => ((i = Len(freed)) /\ (FreedNodes = call.live))
    /\ (pc = "freed") =>
         /\ Len(freed) = Cardinality(call.live) + 1
         /\ freed[Len(freed)] = pDict
         /\ Live = {}

\* a dictionary of ten nodes has been torn down, the root released last
\* of the nodes
C15_Witness ==
  /\ pc = "freed"
  /\ ~fault
  /\ Cardinality(call.live) = MaxStepNodes
  /\ Len(freed) = MaxStepNodes + 1
  /\ freed[MaxStepNodes] = pRoot

(***************************************************************************)
(* C17: every call terminates.  A call that has been made returns (or      *)
(* aborts); a step of the lookup goes to a child of the node it compared   *)
(* or leaves the tree, a step of the insertion descent goes to a child,    *)
(* a pass of the recoloring loop goes from a node to its grandparent, two  *)
(* levels up, and a step of the teardown releases one node or goes down    *)
(* to a child, the dictionary object being released when no node is left.  *)
(***************************************************************************)
C17_Terminates ==
  /\ (pc \notin {"idle", "freed"}) ~> ((pc \in {"idle", "freed"}) \/ fault)
  /\ [][/\ (pc = "find" /\ pc' = "find") =>
             \/ frame'.pCurrent = NULL
             \/ /\ frame'.pCurrent \in Live
                /\ node[frame'.pCurrent].pParent = frame.pCurrent
                /\ Depth(frame'.pCurrent) = Depth(frame.pCurrent) + 1
        /\ (pc = "descend" /\ pc' = "descend") =>
             /\ frame'.pCurrent \in Live
             /\ node[frame'.pCurrent].pParent = frame.pCurrent
             /\ Depth(frame'.pCurrent) = Depth(frame.pCurrent) + 1
        /\ (pc = "recolor" /\ pc' = "recolor" /\ ~fault') =>
             /\ frame'.pNode = grandOf(node, frame.pNode)
             /\ Depth(frame'.pNode) + 2 = Depth(frame.pNode)
             /\ frame'.pGrand = grandOf(node, frame'.pNode)
        /\ (pc = "free" /\ pc' = "free") =>
             \/ /\ Live' = Live \ {frame.pNode}
                /\ Cardinality(Live') + 1 = Cardinality(Live)
             \/ /\ Live' = Live
                /\ frame'.pNode \in Live
                /\ node[frame'.pNode].pParent = frame.pNode
        /\ (pc = "free" /\ pc' = "freed") => (Live = {})]_vars

\* the recoloring loop of an insertion has made one pass and is about to
\* make a second one, two levels above the node that was linked
C17_Witness ==
  /\ pc = "recolor"
  /\ ~fault
  /\ frame.pCurrent \in Live
  /\ frame.pNode = node[frame.pCurrent].pParent
  /\ frame.pGrand = grandOf(node, frame.pNode)
  /\ rfdict_isred(node, node[frame.pGrand].pLeft) = 1
  /\ rfdict_isred(node, node[frame.pGrand].pRight) = 1

(***************************************************************************)
(* C20: the character table is safe once initialized.  With the call of    *)
(* snu_ctable_prepare by the main thread completed before the other        *)
(* threads start, no step of any thread writes the table or its flag       *)
(* once the flag is set (a further snu_ctable_prepare is ignored), the     *)
(* table holds the ASCII code of every supported character, threads run    *)
(* beside the main thread only with the flag set, and a call aborts only   *)
(* for a character outside 0x20-0x7e.                                      *)
(***************************************************************************)
C20_TableStable ==
  /\ [](snu_ctable_init # 0 =>
          \A ascii_c \in 32 .. 126 : snu_ctable[char_ref(ascii_c - 32)] = ascii_c)
  /\ [](DOMAIN thread # {0} => snu_ctable_init # 0)
  /\ [](\A t \in DOMAIN thread :
          (thread[t].pc = "abort") =>
             /\ thread[t].fn = "snu_ctable_ascii"
             /\ thread[t].source_c \notin 32 .. 126)
  /\ [](fault => \E t \in DOMAIN thread : thread[t].pc = "abort")
  /\ [][snu_ctable_init # 0 =>
          /\ snu_ctable' = snu_ctable
          /\ snu_ctable_init' = snu_ctable_init]_vars

\* with the table initialized, one thread is at the flag test of a
\* further snu_ctable_prepare while another looks up '~' and the main
\* thread is inside snu_ctable_ascii as well
C20_Witness ==
  /\ ~fault
  /\ snu_ctable_init = 1
  /\ DOMAIN thread = 0 .. CtThreads
  /\ \E t1, t2 \in 1 .. CtThreads :
       /\ t1 # t2
       /\ thread[t1].pc = "test"
       /\ thread[t1].fn = "snu_ctable_prepare"
       /\ thread[t2].pc = "lookup"
       /\ thread[t2].source_c = char_ref(94)
  /\ thread[0].fn = "snu_ctable_ascii"

(***************************************************************************)
(* The stepwise calls end as the calls made in one step: an insertion      *)
(* that returns leaves the tree and the status rfdict_insert computes      *)
(* from the state at the call, a lookup returns what rfdict_get computes.  *)
(***************************************************************************)
StepsAgree ==
  [][/\ (pc \in {"descend", "recolor"} /\ pc' = "idle") =>
          LET r == rfdict_insert(frame.entry.pRoot, frame.entry.node,
                                 sensitive, frame.pKey, frame.val, 0)
          IN /\ r.pRoot = pRoot'
             /\ r.node = node'
             /\ r.status = retval'
             /\ r.fault = fault'
     /\ (pc = "find" /\ pc' = "idle") =>
          retval' = rfdict_get(pRoot, node, frame.pKey, frame.dvalue,
                               sensitive)]_vars

(***************************************************************************)
(* C21: whenever the current node and its parent are both red after the    *)
(* recoloring loop, the grandparent exists and does not have two red       *)
(* children, and exactly one of the four left/right patterns matches, so   *)
(* the branch that aborts is not taken; once the colors and rotations of   *)
(* that one pattern are made and the call returns, no red node anywhere    *)
(* in the tree has a red parent.                                           *)
(***************************************************************************)
\* the patterns of the rotation cases that the node pNode matches
PatternsMatching(nd, pNode) ==
  LET pParent == nd[pNode].pParent
      pGrand == nd[pParent].pParent
  IN {pat \in {"left-right", "right-left", "left-left", "right-right"} :
        \/ pat = "left-right" /\ pNode = nd[pParent].pRight
                              /\ pParent = nd[pGrand].pLeft
        \/ pat = "right-left" /\ pNode = nd[pParent].pLeft
                              /\ pParent = nd[pGrand].pRight
        \/ pat = "left-left" /\ pNode = nd[pParent].pLeft
                             /\ pParent = nd[pGrand].pLeft
        \/ pat = "right-right" /\ pNode = nd[pParent].pRight
                               /\ pParent = nd[pGrand].pRight}

\* the current node and its parent are both red
RedRedAt(nd, pNode) ==
  /\ nd[pNode].red # 0
  /\ nd[pNode].pParent # NULL
  /\ nd[nd[pNode].pParent].red # 0

\* the red nodes of a heap that have a red parent
RedRedNodes(nd) == {n \in DOMAIN nd : RedRedAt(nd, n)}

C21_OnePatternFixes ==
  /\ []((pc = "fix" /\ RedRedAt(node, frame.pNode)) =>
          /\ ~fault
          /\ grandOf(node, frame.pNode) # NULL
          /\ ~(IsRed(node[grandOf(node, frame.pNode)].pLeft) /\
               IsRed(node[grandOf(node, frame.pNode)].pRight))
          /\ Cardinality(PatternsMatching(node, frame.pNode)) = 1)
  /\ []((pc = "rotate") =>
          (~fault /\ Len(frame.todo) + frame.rotations \in {1, 2}))
  /\ [][(pc \in {"fix", "rotate"} /\ pc' = "idle") =>
          (~fault' /\ RedRedNodes(node') = {})]_vars
  /\ [][(pc = "fix" /\ RedRedAt(node, frame.pNode)) =>
          (pc' = "rotate" /\ ~fault')]_vars

\* after a pass of the recoloring loop the current node, two levels above
\* the new one, is the right child of a red left child
C21_Witness ==
  /\ pc = "fix"
  /\ ~fault
  /\ frame.pNode # frame.pNew
  /\ RedRedAt(node, frame.pNode)
  /\ PatternsMatching(node, frame.pNode) = {"left-right"}
  /\ node[frame.pNode].pLeft # NULL
  /\ node[frame.pNode].pRight # NULL

(***************************************************************************)
(* C22: the recoloring loop is entered and re-entered with a red current   *)
(* node under a red parent and their grandparent.  A pass is made only     *)
(* while both children of the grandparent are red: otherwise the loop is   *)
(* left.  A pass colors the two children black and changes nothing else    *)
(* but the color of the grandparent: black if the grandparent is the       *)
(* root, and then the loop ends; red otherwise, and then the grandparent   *)
(* is the current node and the loop goes on exactly if its parent is red.  *)
(***************************************************************************)
C22_RecolorPass ==
  /\ []((pc = "recolor") =>
          /\ RedRedAt(node, frame.pNode)
          /\ frame.pGrand = grandOf(node, frame.pNode)
          /\ frame.pGrand \in Live)
  /\ [][(pc = "recolor") =>
          LET pGrand == frame.pGrand
              pL == node[pGrand].pLeft
              pR == node[pGrand].pRight
          IN IF IsRed(pL) /\ IsRed(pR)
               THEN /\ ~fault'
                    /\ pRoot' = pRoot
                    /\ Live' = Live
                    /\ node'[pL].red = 0
                    /\ node'[pR].red = 0
                    /\ \A n \in Live \ {pL, pR, pGrand} : node'[n] = node[n]
                    /\ \A n \in {pL, pR, pGrand} :
                         node'[n] = [node[n] EXCEPT !.red = node'[n].red]
                    /\ IF node[pGrand].pParent = NULL
                         THEN /\ pGrand = pRoot
                              /\ node'[pGrand].red = 0
                              /\ pc' = "idle"
                         ELSE /\ node'[pGrand].red = 1
                              /\ (pc' = "recolor") <=>
                                   (node[node[pGrand].pParent].red # 0)
                              /\ (pc' = "recolor") =>
                                   /\ frame'.pNode = pGrand
                                   /\ frame'.pGrand = grandOf(node, pGrand)
                              /\ (pc' # "recolor") => (pc' = "idle")
               ELSE pc' = "idle"]_vars

\* the loop has made one pass and is about to make a second one, on a
\* grandparent that is the root
C22_Witness ==
  /\ pc = "recolor"
  /\ ~fault
  /\ frame.pNode # frame.pNew
  /\ frame.pGrand = pRoot
  /\ IsRed(node[pRoot].pLeft)
  /\ IsRed(node[pRoot].pRight)

(***************************************************************************)
(* C23: when a rotation case has been carried out, the place the           *)
(* grandparent held is held by a black node, the former current node in    *)
(* the two-rotation (zig-zag) cases and the former parent in the           *)
(* one-rotation (zig-zig) cases; its two children are the other two of     *)
(* current node, parent and grandparent, both red; its parent is the       *)
(* former parent of the grandparent, which refers to it where it referred  *)
(* to the grandparent, or it is the root of the dictionary; and the keys   *)
(* of the subtree, read in order, are the ones read before.                *)
(***************************************************************************)
\* the keys of the subtree of p, left to right
RECURSIVE InOrderFrom(_, _, _)
InOrderFrom(nd, p, fuel) ==
  IF p = NULL \/ fuel = 0 THEN <<>>
  ELSE InOrderFrom(nd, nd[p].pLeft, fuel - 1) \o <<nd[p].key>>
         \o InOrderFrom(nd, nd[p].pRight, fuel - 1)

InOrder(nd, p) == InOrderFrom(nd, p, Cardinality(DOMAIN nd))

C23_FixupShape ==
  [][(pc = "rotate" /\ pc' = "idle") =>
       LET before == frame.loop.node
           pChild == frame.pNode
           pParent == before[pChild].pParent
           pGrand == before[pParent].pParent
           pAbove == before[pGrand].pParent
           zigzag == (pChild = before[pParent].pRight) <=>
                       (pParent = before[pGrand].pLeft)
           pTop == IF zigzag THEN pChild ELSE pParent
           others == {pChild, pParent, pGrand} \ {pTop}
       IN /\ ~fault'
          /\ node'[pTop].red = 0
          /\ {node'[pTop].pLeft, node'[pTop].pRight} = others
          /\ \A n \in others : node'[n].red # 0 /\ node'[n].pParent = pTop
          /\ node'[pTop].pParent = pAbove
          /\ IF pAbove = NULL
               THEN frame.loop.pRoot = pGrand /\ pRoot' = pTop
               ELSE /\ pRoot' = frame.loop.pRoot
                    /\ (before[pAbove].pLeft = pGrand) =>
                         (node'[pAbove].pLeft = pTop /\
                          node'[pAbove].pRight = before[pAbove].pRight)
                    /\ (before[pAbove].pRight = pGrand) =>
                         (node'[pAbove].pRight = pTop /\
                          node'[pAbove].pLeft = before[pAbove].pLeft)
          /\ InOrder(node', pTop) = InOrder(before, pGrand)
          /\ Len(InOrder(before, pGrand)) >= 3
          /\ InOrder(node', pRoot') = InOrder(before, frame.loop.pRoot)]_vars

\* the second rotation of a zig-zag case is due, after a pass of the
\* recoloring loop, on a current node that has two subtrees
C23_Witness ==
  /\ pc = "rotate"
  /\ ~fault
  /\ Len(frame.todo) = 1
  /\ frame.rotations = 1
  /\ frame.pNode # frame.pNew
  /\ frame.loop.node[frame.pNode].pLeft # NULL
  /\ frame.loop.node[frame.pNode].pRight # NULL

(***************************************************************************)
(* C24: rfdict_rol on a node N with right child R puts R in the place of   *)
(* N (the parent of R is the old parent of N, whose link to N now refers   *)
(* to R, or the root reference does if N was the root), makes N the left   *)
(* child of R, makes the former left subtree of R the right subtree of N   *)
(* with N as the parent of its root, and changes nothing else: the left    *)
(* subtree of N, the right subtree of R, every other node and every        *)
(* color, key and value are as before.  rfdict_ror is the mirror image.    *)
(***************************************************************************)
\* nd2 and root2 are nd and root after the rotation that lifts the child
\* pC of pN, pC being the right child for a left rotation
Rotated(nd, root, nd2, root2, pN, pC, left) ==
  LET pA == nd[pN].pParent
      pS == IF left THEN nd[pC].pLeft ELSE nd[pC].pRight
  IN /\ DOMAIN nd2 = DOMAIN nd
     /\ nd2[pC].pParent = pA
     /\ IF pA = NULL
          THEN root = pN /\ root2 = pC
          ELSE /\ root2 = root
               /\ (nd[pA].pLeft = pN) =>
                    nd2[pA] = [nd[pA] EXCEPT !.pLeft = pC]
               /\ (nd[pA].pRight = pN) =>
                    nd2[pA] = [nd[pA] EXCEPT !.pRight = pC]
               /\ (nd[pA].pLeft = pN) # (nd[pA].pRight = pN)
     /\ nd2[pN].pParent = pC
     /\ IF left
          THEN /\ nd2[pC].pLeft = pN
               /\ nd2[pC].pRight = nd[pC].pRight
               /\ nd2[pN].pRight = pS
               /\ nd2[pN].pLeft = nd[pN].pLeft
          ELSE /\ nd2[pC].pRight = pN
               /\ nd2[pC].pLeft = nd[pC].pLeft
               /\ nd2[pN].pLeft = pS
               /\ nd2[pN].pRight = nd[pN].pRight
     /\ (pS # NULL) => (nd2[pS] = [nd[pS] EXCEPT !.pParent = pN])
     /\ \A n \in DOMAIN nd :
          /\ nd2[n].red = nd[n].red
          /\ nd2[n].key = nd[n].key
          /\ nd2[n].val = nd[n].val
          /\ (n \notin {pN, pC, pA, pS}) => (nd2[n] = nd[n])

C24_RotationEffect ==
  [][(pc = "rotate") =>
       LET h == Head(frame.todo)
           left == h.fn = "rfdict_rol"
           pC == IF left THEN node[h.pNode].pRight
                 ELSE node[h.pNode].pLeft
       IN /\ pC # NULL
          /\ ~fault'
          /\ Rotated(node, pRoot, node', pRoot', h.pNode, pC, left)]_vars

\* a left rotation is due on a node below the root whose right child has
\* a left subtree
C24_Witness ==
  /\ pc = "rotate"
  /\ ~fault
  /\ Head(frame.todo).fn = "rfdict_rol"
  /\ node[Head(frame.todo).pNode].pParent # NULL
  /\ node[node[Head(frame.todo).pNode].pRight].pLeft # NULL
  /\ node[Head(frame.todo).pNode].pLeft # NULL

(***************************************************************************)
(* C25: rebalancing is triggered by a red node under a red parent only.    *)
(* When the new key is linked under a black parent, the insertion makes    *)
(* no pass of the recoloring loop, sets no color of an existing node and   *)
(* makes no rotation: the tree it returns with is the tree at the call     *)
(* with the new red leaf and the link of the parent that refers to it.     *)
(* A pass of the loop or a rotation case is made only after a link under   *)
(* a red parent.                                                           *)
(***************************************************************************)
\* the new node pNew is a red leaf under pParent in nd2, and nd2 is nd
\* otherwise
LeafAdded(nd, nd2, pNew, pParent) ==
  /\ DOMAIN nd2 = (DOMAIN nd) \cup {pNew}
  /\ pNew \notin DOMAIN nd
  /\ nd2[pNew].pParent = pParent
  /\ nd2[pNew].pLeft = NULL
  /\ nd2[pNew].pRight = NULL
  /\ nd2[pNew].red = 1
  /\ \A n \in (DOMAIN nd) \ {pParent} : nd2[n] = nd[n]
  /\ \/ nd[pParent].pLeft = NULL /\
        nd2[pParent] = [nd[pParent] EXCEPT !.pLeft = pNew]
     \/ nd[pParent].pRight = NULL /\
        nd2[pParent] = [nd[pParent] EXCEPT !.pRight = pNew]

\* the insertion in progress has linked its node under a black parent
LinkedUnderBlack ==
  /\ frame.pCurrent # NULL
  /\ frame.entry.node[frame.pCurrent].red = 0

C25_BlackParentNoRebalance ==
  /\ []((pc = "fix" /\ LinkedUnderBlack) =>
          /\ ~fault
          /\ frame.pNode = frame.pNew
          /\ pRoot = frame.entry.pRoot
          /\ LeafAdded(frame.entry.node, node, frame.pNew, frame.pCurrent))
  /\ [][(pc = "fix" /\ LinkedUnderBlack) =>
          /\ pc' = "idle"
          /\ retval' = 1
          /\ ~fault'
          /\ pRoot' = pRoot
          /\ node' = node]_vars
  /\ []((pc \in {"fix", "rotate"} /\
         (pc = "rotate" \/ frame.pNode # frame.pNew)) =>
          /\ frame.pCurrent # NULL
          /\ frame.entry.node[frame.pCurrent].red # 0)
  /\ [][(pc = "fix" /\ pc' = "rotate") => RedRedAt(node, frame.pNode)]_vars

\* a node has been linked under a black parent that is not the root and
\* has another child, in a tree of seven nodes
C25_Witness ==
  /\ pc = "fix"
  /\ ~fault
  /\ LinkedUnderBlack
  /\ frame.pCurrent # pRoot
  /\ node[frame.pCurrent].pLeft # NULL
  /\ node[frame.pCurrent].pRight # NULL
  /\ Cardinality(Live) = 7

RotationsMade == IF pc = "rotate" THEN frame.rotations + 1 ELSE 0

C27_AtMostTwoRotations ==
  /\ [][(pc \in {"fix", "rotate"} /\ pc' = "idle") =>
          LET before == frame.loop.node
              pats == IF RedRedAt(before, frame.pNode)
                        THEN PatternsMatching(before, frame.pNode) ELSE {}
          IN /\ RotationsMade <= 2
             /\ (RotationsMade = 0) <=> ~RedRedAt(before, frame.pNode)
             /\ (RotationsMade = 1) <=>
                  (pats # {} /\ pats \subseteq {"left-left", "right-right"})
             /\ (RotationsMade = 2) <=>
                  (pats # {} /\ pats \subseteq {"left-right", "right-left"})
             /\ (frame.pCurrent = NULL \/ LinkedUnderBlack) =>
                  (RotationsMade = 0)]_vars
  /\ [][(pc = "idle" /\ pc' = "fix" /\ pRoot # NULL) =>
          /\ pRoot' = pRoot
          /\ \A n \in Live \ {frame'.pCurrent} :
               node'[n] = [node[n] EXCEPT !.red = node'[n].red]
          /\ LET p == frame'.pCurrent
             IN \/ node'[p] = [node[p] EXCEPT !.red = node'[p].red,
                                              !.pLeft = frame'.pNew]
                \/ node'[p] = [node[p] EXCEPT !.red = node'[p].red,
                                              !.pRight = frame'.pNew]]_vars
  /\ [][(pc = "rotate") =>
          \A n \in Live : n \in Live' /\ node'[n].red = node[n].red]_vars
  /\ [][(pc = "fix") => \A n \in Live : n \in Live' /\
          node'[n] = [node[n] EXCEPT !.red = node'[n].red]]_vars

\* the second rotation of a zig-zag case is due for a new leaf in a tree
\* of eight nodes
C27_Witness ==
  /\ pc = "rotate"
  /\ ~fault
  /\ frame.rotations = 1
  /\ Len(frame.todo) = 1
  /\ frame.pNode = frame.pNew
  /\ Cardinality(Live) = MaxFixNodes

(***************************************************************************)
(* C28: in a case-insensitive dictionary no stored key holds a byte in     *)
(* a-z, every stored key is the folded form of a key that was inserted,    *)
(* and no two nodes hold the same bytes, so no two stored keys are equal   *)
(* after folding.  An insertion is refused exactly if the folded copy of   *)
(* its key is byte for byte a stored key, and a node that is added holds   *)
(* the folded copy.                                                        *)
(***************************************************************************)
HasLower(k) ==
  \E i \in 1 .. Len(k) : k[i] \in ASCII_LOWER_A .. ASCII_LOWER_Z

C28_StoredKeysFolded ==
  /\ []((sensitive = 0 /\ ~fault) =>
          /\ \A n \in Live :
               /\ ~HasLower(node[n].key)
               /\ \E p \in inserted : node[n].key = Upper(p[1])
          /\ \A n, m \in Live :
               (n # m) => /\ node[n].key # node[m].key
                          /\ Upper(node[n].key) # Upper(node[m].key))
  /\ [][(sensitive = 0 /\ call'.fn = "rfdict_insert" /\ ~fault') =>
          /\ (retval' = 0) <=>
               (\E n \in Live : node[n].key = Upper(call'.pKey))
          /\ (retval' # 0) =>
               \E n \in Live' \ Live : /\ Live' = Live \cup {n}
                                       /\ node'[n].key = Upper(call'.pKey)
          /\ (retval' = 0) => (node' = node)]_vars

\* a case-insensitive dictionary that holds "AA", stored for "Aa", and
\* "A" has refused "a"
C28_Witness ==
  /\ sensitive = 0
  /\ ~fault
  /\ call.fn = "rfdict_insert"
  /\ call.pKey = <<ASCII_LOWER_A>>
  /\ retval = 0
  /\ \E n \in Live : node[n].key = <<ASCII_UPPER_A, ASCII_UPPER_A>>
  /\ \E p \in inserted : p[1] = <<ASCII_UPPER_A, ASCII_LOWER_A>>
  /\ \E p \in inserted : p[1] = <<ASCII_UPPER_A>>
  /\ Cardinality(Live) = MaxNodes

(***************************************************************************)
(* C29: during rfdict_free nothing released is used again and a node is    *)
(* released after all of its descendants.  In every state of the walk no   *)
(* abort has been reached, the node the walk is at is allocated (or the    *)
(* walk is over), no allocated node refers to a released one, and every    *)
(* node released so far was released after each node below it in the tree  *)
(* at the call.  A step of the walk goes down to an allocated child, or    *)
(* releases the node the walk is at, which then has no children; the       *)
(* parent no longer refers to it and the walk goes on at the parent.       *)
(***************************************************************************)
\* the nodes above n in the heap nd
RECURSIVE AncestorsFrom(_, _, _)
AncestorsFrom(nd, n, fuel) ==
  IF fuel = 0 \/ nd[n].pParent = NULL THEN {}
  ELSE {nd[n].pParent} \cup AncestorsFrom(nd, nd[n].pParent, fuel - 1)

Ancestors(nd, n) == AncestorsFrom(nd, n, Cardinality(DOMAIN nd))

C29_TeardownOrder ==
  /\ []((pc = "free") =>
          /\ ~fault
          /\ frame.pNode \in Live \cup {NULL}
          /\ \A n \in Live :
               /\ node[n].pLeft \in Live \cup {NULL}
               /\ node[n].pRight \in Live \cup {NULL}
               /\ node[n].pParent \in Live \cup {NULL}
               /\ node[n].pParent = call.node[n].pParent
               /\ node[n].key = call.node[n].key
          /\ \A i \in 1 .. Len(freed) :
               \A d \in call.live :
                 (freed[i] \in Ancestors(call.node, d)) =>
                   (\E j \in 1 .. (i - 1) : freed[j] = d))
  /\ [][(pc = "free" /\ pc' = "free") =>
          LET pNode == frame.pNode
          IN \/ /\ UNCHANGED <<node, freed>>
                /\ frame'.pNode \in {node[pNode].pLeft, node[pNode].pRight}
                /\ frame'.pNode \in Live
             \/ /\ node[pNode].pLeft = NULL
                /\ node[pNode].pRight = NULL
                /\ pNode \notin FreedNodes
                /\ freed' = Append(freed, pNode)
                /\ Live' = Live \ {pNode}
                /\ frame'.pNode = node[pNode].pParent
                /\ \A n \in Live' :
                     /\ node'[n].pLeft # pNode
                     /\ node'[n].pRight # pNode
                     /\ (n # node[pNode].pParent) => (node'[n] = node[n])]_vars
  /\ [][(pc = "free" /\ pc' = "freed") =>
          (frame.pNode = NULL /\ Live = {} /\ UNCHANGED node)]_vars

\* the walk has come back to a node below the root whose two subtrees,
\* present at the call, have been released
C29_Witness ==
  /\ pc = "free"
  /\ ~fault
  /\ frame.pNode \in Live
  /\ frame.pNode # pRoot
  /\ node[frame.pNode].pLeft = NULL
  /\ node[frame.pNode].pRight = NULL
  /\ call.node[frame.pNode].pLeft # NULL
  /\ call.node[frame.pNode].pRight # NULL
  /\ Cardinality(call.live) = MaxStepNodes

(***************************************************************************)
(* C30 as worded: a successful insertion leaves the black depth of the     *)
(* tree as it is or raises it by one, a rotation case does not change it,  *)
(* and it is raised only by a pass of the recoloring loop on the root      *)
(* with two red children.  The black depth is the number of black nodes    *)
(* from the root to an exit node, 0 for the tree without nodes.            *)
(***************************************************************************)
\* black nodes from n up to the root of the heap nd, both included
RECURSIVE BlackUpFrom(_, _, _)
BlackUpFrom(nd, n, fuel) ==
  IF n = NULL \/ fuel = 0 THEN 0
  ELSE (IF nd[n].red = 0 THEN 1 ELSE 0)
         + BlackUpFrom(nd, nd[n].pParent, fuel - 1)

\* the black depths of the exit nodes of the heap nd
ExitBlackDepths(nd) ==
  {BlackUpFrom(nd, n, Cardinality(DOMAIN nd)) :
     n \in {e \in DOMAIN nd : nd[e].pLeft = NULL \/ nd[e].pRight = NULL}}

\* all exit nodes of the heap nd have one black depth
BlackDepthCommon(nd) == Cardinality(ExitBlackDepths(nd)) <= 1

\* the black depth of the tree in the heap nd
TreeBlackDepth(nd) ==
  IF ExitBlackDepths(nd) = {} THEN 0
  ELSE CHOOSE d \in ExitBlackDepths(nd) : TRUE

\* the recoloring loop of the insertion in progress has made a pass on the
\* root: both children of the root were red at the call and are black
RootPass ==
  LET root == frame.entry.pRoot
      was == frame.entry.node
      now == frame.loop.node
  IN /\ root # NULL
     /\ frame.loop.pRoot = root
     /\ was[root].pLeft # NULL
     /\ was[root].pRight # NULL
     /\ was[was[root].pLeft].red # 0
     /\ was[was[root].pRight].red # 0
     /\ now[was[root].pLeft].red = 0
     /\ now[was[root].pRight].red = 0
     /\ frame.pNode = root

C30_AsWorded ==
  [][(pc \in {"fix", "rotate"} /\ pc' = "idle") =>
       LET d0 == TreeBlackDepth(frame.entry.node)
           dl == TreeBlackDepth(frame.loop.node)
           d1 == TreeBlackDepth(node')
       IN /\ d1 \in {d0, d0 + 1}
          /\ d1 = dl
          /\ (d1 = d0 + 1) => RootPass]_vars

(***************************************************************************)
(* C30 amended, with the first insertion added: a successful insertion     *)
(* leaves the black depth of the tree as it is or raises it by one; it     *)
(* raises it exactly if the tree was empty, the new node becoming a black  *)
(* root, or if the recoloring loop made a pass on the root with two red    *)
(* children.  The exit nodes have one black depth at the call, after the   *)
(* loop and at the return, and a rotation case leaves it as the loop left  *)
(* it.                                                                     *)
(***************************************************************************)
C30_BlackDepthStep ==
  [][(pc \in {"fix", "rotate"} /\ pc' = "idle") =>
       LET d0 == TreeBlackDepth(frame.entry.node)
           dl == TreeBlackDepth(frame.loop.node)
           d1 == TreeBlackDepth(node')
       IN /\ BlackDepthCommon(frame.entry.node)
          /\ BlackDepthCommon(frame.loop.node)
          /\ BlackDepthCommon(node')
          /\ d1 \in {d0, d0 + 1}
          /\ d1 = dl
          /\ (d1 = d0 + 1) <=> (frame.entry.pRoot = NULL \/ RootPass)]_vars

\* the recoloring loop has made two passes, the second one on the root of
\* a tree that held nine nodes at the call and had black depth 2
C30_Witness ==
  /\ pc = "fix"
  /\ ~fault
  /\ RootPass
  /\ Cardinality(DOMAIN frame.entry.node) = 9
  /\ TreeBlackDepth(frame.entry.node) = 2
  /\ TreeBlackDepth(node) = 3

(***************************************************************************)
(* The stepwise rebalancing ends as the insertion made in one step.        *)
(***************************************************************************)
FixAgree ==
  [][(pc \in {"fix", "rotate"} /\ pc' = "idle") =>
       LET r == rfdict_insert(frame.entry.pRoot, frame.entry.node,
                              sensitive, frame.pKey, 1, 0)
       IN /\ r.pRoot = pRoot'
          /\ r.node = node'
          /\ r.status = retval'
          /\ r.fault = fault']_vars

====
